---- MODULE Spec2Model ----
(***************************************************************************)
(* TerraBuild backend: the batch-ingestion pipeline (api/batch.rs), the    *)
(* cost-table write paths (api/cost_table.rs), the valuation engine        *)
(* (services/valuation.rs, api/valuation.rs), the scenarios                *)
(* (services/scenario.rs, api/scenario.rs) and the role guards (auth.rs),  *)
(* as a state machine over the backing store.                              *)
(*                                                                         *)
(* Text is modelled as a sequence of one-character strings, so that        *)
(* lower-casing, replacing, parsing and joining are computed, not assumed. *)
(* An f64 is modelled as an exact decimal, an infinity or NaN.  Store      *)
(* writes are assumed to be accepted by the database (no connection        *)
(* faults).                                                                *)
(***************************************************************************)
EXTENDS Integers, Sequences, FiniteSets, TLC

(***************************************************************************)
(* Bounds of the model.                                                    *)
(***************************************************************************)
MaxJobs == 2
MaxSeqJobs == 1
MaxApiWrites == 2

(***************************************************************************)
(* Program constants.                                                      *)
(***************************************************************************)
CheckpointEvery == 100
HeaderRowOffset == 2
BulkImportCap == 1000
I32Max == 2147483647

(***************************************************************************)
(* Option<T>                                                               *)
(***************************************************************************)
None == [some |-> FALSE, v |-> <<>>]
Some(x) == [some |-> TRUE, v |-> x]

(***************************************************************************)
(* Text helpers: str::to_lowercase, str::replace, str::ends_with,          *)
(* str::parse::<i32>, str::parse::<f64>, NaiveDate::parse_from_str.        *)
(***************************************************************************)
UpperChars == <<"A","B","C","D","E","F","G","H","I","J","K","L","M",
                "N","O","P","Q","R","S","T","U","V","W","X","Y","Z">>
LowerChars == <<"a","b","c","d","e","f","g","h","i","j","k","l","m",
                "n","o","p","q","r","s","t","u","v","w","x","y","z">>
Digits == <<"0","1","2","3","4","5","6","7","8","9">>

ToLowerChar(c) ==
  IF \E i \in 1..Len(UpperChars) : UpperChars[i] = c
  THEN LowerChars[CHOOSE i \in 1..Len(UpperChars) : UpperChars[i] = c]
  ELSE c

to_lowercase(s) == [i \in 1..Len(s) |-> ToLowerChar(s[i])]

replace(s, from, to) == [i \in 1..Len(s) |-> IF s[i] = from THEN to ELSE s[i]]

ends_with(s, suffix) ==
  /\ Len(s) >= Len(suffix)
  /\ SubSeq(s, Len(s) - Len(suffix) + 1, Len(s)) = suffix

IsDigit(c) == \E i \in 1..Len(Digits) : Digits[i] = c
DigitVal(c) == (CHOOSE i \in 1..Len(Digits) : Digits[i] = c) - 1
AllDigits(s) == \A i \in 1..Len(s) : IsDigit(s[i])

RECURSIVE DigitsVal(_)
DigitsVal(s) ==
  IF Len(s) = 0 THEN 0
  ELSE 10 * DigitsVal(SubSeq(s, 1, Len(s) - 1)) + DigitVal(s[Len(s)])

ParseErr == [ok |-> FALSE, v |-> 0]
ParseOk(n) == [ok |-> TRUE, v |-> n]

\* str::parse::<i32>: an optional sign, then at least one digit, nothing else;
\* a value outside the i32 range is an error.
ParseI32(s) ==
  LET signed == Len(s) > 0 /\ s[1] \in {"+", "-"}
      body == IF signed THEN Tail(s) ELSE s
      mag == DigitsVal(body)
      val == IF signed /\ s[1] = "-" THEN 0 - mag ELSE mag
  IN IF Len(body) = 0 \/ ~AllDigits(body) THEN ParseErr
     ELSE IF val > I32Max \/ val < 0 - I32Max - 1 THEN ParseErr
     ELSE ParseOk(val)

(***************************************************************************)
(* f64.  A finite value is the decimal m * 10^-e, kept normalized (no      *)
(* trailing zero in m while e > 0), so that equal values are equal         *)
(* records; the other values are the two infinities and NaN.  The          *)
(* arithmetic is exact on the finite values the inputs produce.            *)
(***************************************************************************)
RECURSIVE Fin(_, _)
Fin(m, e) ==
  IF m = 0 THEN [c |-> "fin", m |-> 0, e |-> 0]
  ELSE IF e > 0 /\ m % 10 = 0 THEN Fin(m \div 10, e - 1)
  ELSE [c |-> "fin", m |-> m, e |-> e]

PosInf == [c |-> "inf", m |-> 1, e |-> 0]
NegInf == [c |-> "inf", m |-> 0 - 1, e |-> 0]
NaN == [c |-> "nan", m |-> 0, e |-> 0]

Sign(x) == IF x.m > 0 THEN 1 ELSE IF x.m < 0 THEN 0 - 1 ELSE 0

RECURSIVE Pow10(_)
Pow10(n) == IF n = 0 THEN 1 ELSE 10 * Pow10(n - 1)

\* a * b
FMul(a, b) ==
  IF a.c = "nan" \/ b.c = "nan" THEN NaN
  ELSE IF a.c = "fin" /\ b.c = "fin" THEN Fin(a.m * b.m, a.e + b.e)
  ELSE IF Sign(a) * Sign(b) = 0 THEN NaN
  ELSE IF Sign(a) * Sign(b) > 0 THEN PosInf ELSE NegInf

\* a - b
FSub(a, b) ==
  IF a.c = "nan" \/ b.c = "nan" THEN NaN
  ELSE IF a.c = "fin" /\ b.c = "fin"
  THEN LET e == IF a.e > b.e THEN a.e ELSE b.e
       IN Fin(a.m * Pow10(e - a.e) - b.m * Pow10(e - b.e), e)
  ELSE IF a.c = "inf" /\ b.c = "inf"
  THEN (IF Sign(a) = Sign(b) THEN NaN ELSE a)
  ELSE IF a.c = "inf" THEN a
  ELSE IF Sign(b) > 0 THEN NegInf ELSE PosInf

\* a < b, on finite values
FLess(a, b) ==
  LET e == IF a.e > b.e THEN a.e ELSE b.e
  IN a.m * Pow10(e - a.e) < b.m * Pow10(e - b.e)

\* serde_json's Value::from(f64): a non-finite value becomes null.
JsonNull == [c |-> "null", m |-> 0, e |-> 0]
JsonNumber(x) == IF x.c = "fin" THEN x ELSE JsonNull

\* Value::as_f64
as_f64(v) == IF v.c = "fin" THEN Some(v) ELSE None

\* str::parse::<f64> on decimal literals without exponent (an optional sign,
\* digits with an optional fraction of at most two digits) and on the
\* non-finite literals inf, infinity and nan, matched without regard to case.
ParseF64(s) ==
  LET signed == Len(s) > 0 /\ s[1] \in {"+", "-"}
      neg == signed /\ s[1] = "-"
      body == IF signed THEN Tail(s) ELSE s
      word == to_lowercase(body)
      dots == {i \in 1..Len(body) : body[i] = "."}
      dot == IF dots = {} THEN Len(body) + 1 ELSE CHOOSE i \in dots : TRUE
      ip == SubSeq(body, 1, dot - 1)
      fp == SubSeq(body, dot + 1, Len(body))
      fp2 == SubSeq(fp \o <<"0", "0">>, 1, 2)
      mag == 100 * DigitsVal(ip) + DigitsVal(fp2)
  IN IF word = <<"i","n","f">> \/ word = <<"i","n","f","i","n","i","t","y">>
     THEN ParseOk(IF neg THEN NegInf ELSE PosInf)
     ELSE IF word = <<"n","a","n">> THEN ParseOk(NaN)
     ELSE IF Cardinality(dots) > 1 \/ Len(ip) + Len(fp) = 0
             \/ ~AllDigits(ip) \/ ~AllDigits(fp) THEN ParseErr
     ELSE ParseOk(Fin(IF neg THEN 0 - mag ELSE mag, 2))

IsLeap(y) == (y % 4 = 0 /\ y % 100 # 0) \/ y % 400 = 0
DaysInMonth(y, m) ==
  IF m = 2 THEN (IF IsLeap(y) THEN 29 ELSE 28)
  ELSE IF m \in {4, 6, 9, 11} THEN 30 ELSE 31

\* chrono::NaiveDate::parse_from_str(s, "%Y-%m-%d") on YYYY-MM-DD texts.
ParseDate(s) ==
  LET shaped == /\ Len(s) = 10
                /\ s[5] = "-" /\ s[8] = "-"
                /\ AllDigits(SubSeq(s, 1, 4))
                /\ AllDigits(SubSeq(s, 6, 7))
                /\ AllDigits(SubSeq(s, 9, 10))
      y == DigitsVal(SubSeq(s, 1, 4))
      m == DigitsVal(SubSeq(s, 6, 7))
      d == DigitsVal(SubSeq(s, 9, 10))
  IN IF shaped /\ m \in 1..12 /\ d \in 1..DaysInMonth(y, m)
     THEN [ok |-> TRUE, v |-> [today |-> FALSE, y |-> y, m |-> m, d |-> d]]
     ELSE [ok |-> FALSE, v |-> [today |-> FALSE, y |-> 0, m |-> 0, d |-> 0]]

\* chrono::Utc::now().date_naive()
Today == [today |-> TRUE, y |-> 0, m |-> 0, d |-> 0]

(***************************************************************************)
(* The normalized field names process_csv_record and the two record        *)
(* processors look up.                                                     *)
(***************************************************************************)
K_parcel_id == <<"p","a","r","c","e","l","_","i","d">>
K_address == <<"a","d","d","r","e","s","s">>
K_owner == <<"o","w","n","e","r">>
K_imp_type == <<"i","m","p","_","t","y","p","e">>
K_quality == <<"q","u","a","l","i","t","y">>
K_year_built == <<"y","e","a","r","_","b","u","i","l","t">>
K_sqft == <<"s","q","f","t">>
K_region == <<"r","e","g","i","o","n">>
K_year == <<"y","e","a","r">>
K_cost_per_sqft == <<"c","o","s","t","_","p","e","r","_","s","q","f","t">>
K_source == <<"s","o","u","r","c","e">>
K_notes == <<"n","o","t","e","s">>
K_effective_date == <<"e","f","f","e","c","t","i","v","e","_","d","a","t","e">>

(***************************************************************************)
(* Principals: the identity and role claims of a verified token.           *)
(***************************************************************************)
R_admin == <<"a","d","m","i","n">>
R_assessor == <<"a","s","s","e","s","s","o","r">>
R_analyst == <<"a","n","a","l","y","s","t">>
R_viewer == <<"v","i","e","w","e","r">>

\* A request's credential: how the Authorization header fares in
\* AuthenticatedUser::from_request_parts and, when the token verifies, the
\* user id and role of its claims.
Credential(user_id, role, credential) ==
  [user_id |-> user_id, role |-> role, credential |-> credential]

AdminUser == Credential(1, R_admin, "valid")
AssessorUser == Credential(2, R_assessor, "valid")
AnalystUser == Credential(3, R_analyst, "valid")
ViewerUser == Credential(4, R_viewer, "valid")
Principals == {AdminUser, AssessorUser, AnalystUser, ViewerUser}

\* Credentials that do not authenticate: no Authorization header, a header
\* without the Bearer prefix, a token that does not decode, an expired token,
\* a token signed with another key.  The claims of the last two name an admin.
BadCredentials ==
  {Credential(0, <<>>, "absent"),
   Credential(0, <<>>, "not_bearer"),
   Credential(0, <<>>, "malformed"),
   Credential(1, R_admin, "expired"),
   Credential(1, R_admin, "bad_signature")}

(***************************************************************************)
(* Uploaded files.  A file is its name and what String::from_utf8 and the  *)
(* csv reader make of its bytes: whether it decodes, whether the header    *)
(* reads, the header names and, per data row, the cells or a parse error.  *)
(***************************************************************************)
CsvRow(cells) == [ok |-> TRUE, cells |-> cells]
CsvBadRow == [ok |-> FALSE, cells |-> <<>>]
CsvFile(name, headers, records) ==
  [filename |-> name, empty |-> FALSE, utf8_ok |-> TRUE, header_ok |-> TRUE,
   headers |-> headers, records |-> records]


\* Property rows under spelled-out column names; the second row does not parse,
\* the third carries the same parcel id with an unparsable year.
PropsFile ==
  CsvFile(<<"a",".","c","s","v">>,
          <<<<"P","a","r","c","e","l"," ","I","D">>, <<"A","d","d","r","e","s","s">>, <<"Y","e","a","r"," ","B","u","i","l","t">>, <<"s","q","f","t">>>>,
          <<CsvRow(<<<<"P","1">>, <<"1"," ","A">>, <<"2","0","1","0">>, <<"1","5","0","0">>>>),
            CsvBadRow,
            CsvRow(<<<<"P","1">>, <<"2"," ","B">>, <<"a","b","c">>, <<"1","2",".","5">>>>)>>)

\* Rows that carry the columns of both shapes.
BothFile ==
  CsvFile(<<"b",".","c","s","v">>,
          <<<<"p","a","r","c","e","l","_","i","d">>, <<"a","d","d","r","e","s","s">>, <<"i","m","p","_","t","y","p","e">>, <<"c","o","s","t","_","p","e","r","_","s","q","f","t">>>>,
          <<CsvRow(<<<<"P","1">>, <<"3"," ","C">>, <<"R","E","S">>, <<"1","0","0">>>>)>>)

\* Cost-table rows; the second has an unparsable year, the third repeats the
\* (type, quality, year, region) of the first.
CostFile ==
  CsvFile(<<"c",".","c","s","v">>,
          <<<<"I","m","p"," ","T","y","p","e">>, <<"q","u","a","l","i","t","y">>, <<"y","e","a","r">>, <<"r","e","g","i","o","n">>, <<"C","o","s","t"," ","P","e","r"," ","S","q","f","t">>>>,
          <<CsvRow(<<<<"R","E","S">>, <<"A","v","g">>, <<"2","0","2","4">>, <<"N">>, <<"1","0","0">>>>),
            CsvRow(<<<<"R","E","S">>, <<"A","v","g">>, <<"2","0","x","4">>, <<"N">>, <<"1","0","0">>>>),
            CsvRow(<<<<"R","E","S">>, <<"A","v","g">>, <<"2","0","2","4">>, <<"N">>, <<"1","2","0",".","5">>>>)>>)

\* Cost-table rows with an effective date: a date, a date that is not
\* YYYY-MM-DD, an empty cell, a date of a day that does not exist.
DatedCostFile ==
  CsvFile(<<"d",".","c","s","v">>,
          <<<<"i","m","p","_","t","y","p","e">>, <<"q","u","a","l","i","t","y">>, <<"y","e","a","r">>, <<"r","e","g","i","o","n">>, <<"c","o","s","t","_","p","e","r","_","s","q","f","t">>, <<"E","f","f","e","c","t","i","v","e"," ","D","a","t","e">>>>,
          <<CsvRow(<<<<"R","E","S">>, <<"A","v","g">>, <<"2","0","2","4">>, <<"N">>, <<"1","0","0">>, <<"2","0","2","4","-","0","1","-","1","5">>>>),
            CsvRow(<<<<"R","E","S">>, <<"A","v","g">>, <<"2","0","2","5">>, <<"N">>, <<"1","0","0">>, <<"0","1","/","1","5","/","2","0","2","4">>>>),
            CsvRow(<<<<"R","E","S">>, <<"A","v","g">>, <<"2","0","2","6">>, <<"N">>, <<"1","0","0">>, <<>>>>),
            CsvRow(<<<<"R","E","S">>, <<"A","v","g">>, <<"2","0","2","7">>, <<"N">>, <<"1","e">>, <<"2","0","2","4","-","0","2","-","3","0">>>>)>>)

\* Cost-table rows without a quality column.
NoQualityCostFile ==
  CsvFile(<<"q",".","c","s","v">>,
          <<<<"i","m","p","_","t","y","p","e">>, <<"y","e","a","r">>, <<"r","e","g","i","o","n">>, <<"c","o","s","t","_","p","e","r","_","s","q","f","t">>>>,
          <<CsvRow(<<<<"R","E","S">>, <<"2","0","2","4">>, <<"N">>, <<"1","0","0">>>>)>>)

\* Rows of neither shape.
UnknownFile ==
  CsvFile(<<"u",".","c","s","v">>,
          <<<<"f","o","o">>, <<"a","d","d","r","e","s","s">>>>,
          <<CsvRow(<<<<"x">>, <<"9"," ","Z">>>>), CsvBadRow>>)

BadUtf8File == [CsvFile(<<"x",".","c","s","v">>, <<>>, <<>>) EXCEPT !.utf8_ok = FALSE]
BadHeaderFile == [CsvFile(<<"h",".","c","s","v">>, <<>>, <<>>) EXCEPT !.header_ok = FALSE]
ExcelFile == CsvFile(<<"e",".","x","l","s","x">>, <<>>, <<>>)
TextFile == CsvFile(<<"n",".","t","x","t">>, <<>>, <<>>)
EmptyFile == [CsvFile(<<"z",".","c","s","v">>, <<>>, <<>>) EXCEPT !.empty = TRUE]

(***************************************************************************)
(* auth.rs: Role::from_str, Role::can_access and the role extractors.      *)
(* An extractor yields "ok" or the kind of AppError it rejects with.       *)
(***************************************************************************)
Roles == {R_admin, R_assessor, R_analyst, R_viewer}

RoleFromStr(role) ==
  LET r == to_lowercase(role)
  IN IF r \in Roles THEN [ok |-> TRUE, role |-> r]
     ELSE [ok |-> FALSE, role |-> <<>>]

can_access(user_role, required_role) ==
  \/ user_role = R_admin
  \/ user_role = R_assessor /\ required_role \in {R_assessor, R_analyst, R_viewer}
  \/ user_role = R_analyst /\ required_role \in {R_analyst, R_viewer}
  \/ user_role = R_viewer /\ required_role = R_viewer

\* AuthenticatedUser::from_request_parts: the header is there, carries a
\* Bearer token, and verify_jwt accepts the token.
Authenticated(user) == user.credential = "valid"

AdminOnly(user) ==
  LET parsed == RoleFromStr(user.role)
  IN IF ~Authenticated(user) THEN "Authentication"
     ELSE IF ~parsed.ok THEN "Validation"
     ELSE IF can_access(parsed.role, R_admin) /\ parsed.role = R_admin THEN "ok"
     ELSE "Authorization"

\* A guard that also admits an Analyst.
AssessorOrAboveAdmitsAnalyst(user) ==
  LET parsed == RoleFromStr(user.role)
  IN IF ~Authenticated(user) THEN "Authentication"
     ELSE IF ~parsed.ok THEN "Validation"
     ELSE IF parsed.role \in {R_admin, R_assessor, R_analyst} THEN "ok"
     ELSE "Authorization"

AssessorOrAbove(user) ==
  LET parsed == RoleFromStr(user.role)
  IN IF ~Authenticated(user) THEN "Authentication"
     ELSE IF ~parsed.ok THEN "Validation"
     ELSE IF parsed.role \in {R_admin, R_assessor} THEN "ok"
     ELSE "Authorization"

AnalystOrAbove(user) ==
  LET parsed == RoleFromStr(user.role)
  IN IF ~Authenticated(user) THEN "Authentication"
     ELSE IF ~parsed.ok THEN "Validation"
     ELSE IF parsed.role \in {R_admin, R_assessor, R_analyst} THEN "ok"
     ELSE "Authorization"

(***************************************************************************)
(* The state.                                                              *)
(***************************************************************************)
VARIABLES
  batch_upload,   \* table batch_upload: the job records, indexed by id
  worker,         \* per job, its spawned task: position and local variables
  property,       \* table property: the rows, indexed by id
  cost_table,     \* table cost_table: a set of rows
  next_cost_id,   \* the SERIAL behind cost_table.id
  bulk,           \* the bulk_import requests in flight
  reply,          \* the response of the request that just completed, if any
  count_writes,   \* history: per job, the total_records of each counts write
  upserts,        \* history: per job, the store writes its rows made
  last_applied,   \* history: per parcel id, the row applied last
  api_writes,     \* history: the number of cost-table API requests so far
  depreciation_schedule,  \* table depreciation_schedule: a set of rows
  valuation,      \* table valuation: the rows, indexed by id
  scenario,       \* table scenario: a set of rows
  next_scenario_id,       \* the SERIAL behind scenario.id
  valbatch,       \* the batch_valuation requests in flight
  requests,       \* history: the number of valuation and scenario requests so far
  users           \* table "user": the accounts, indexed by id

vars == <<batch_upload, worker, property, cost_table, next_cost_id,
          bulk, reply, count_writes, upserts, last_applied, api_writes,
          depreciation_schedule, valuation, scenario, next_scenario_id,
          valbatch, requests, users>>

\* The state of the valuation and scenario requests, and the state of
\* ingestion and of the cost-table requests.
analysis_vars == <<depreciation_schedule, valuation, scenario, next_scenario_id,
                   valbatch, requests, users>>
ingestion_vars == <<batch_upload, worker, next_cost_id, bulk, count_writes,
                    upserts, last_applied, api_writes>>

NoReply == [op |-> "none", kind |-> "none", body |-> <<>>]
Reply(op, kind, body) == [op |-> op, kind |-> kind, body |-> body]

Jobs == 1..Len(batch_upload)

(***************************************************************************)
(* api/auth.rs: the accounts.                                              *)
(***************************************************************************)
\* hash_password: the salt is fixed, the hash is a function of the password
hash_password(password) == [argon2 |-> password]

UserRow(id, username, password, role) ==
  [id |-> id, username |-> username, password_hash |-> hash_password(password),
   role |-> role]

\* The accounts the tokens of the four principals were issued to.
SeedUsers ==
  <<UserRow(1, <<"a","d","a">>, <<"p","1">>, R_admin),
    UserRow(2, <<"b","o","b">>, <<"p","2">>, R_assessor),
    UserRow(3, <<"c","y">>, <<"p","3">>, R_analyst),
    UserRow(4, <<"d","e","e">>, <<"p","4">>, R_viewer)>>

CreateUserRequest(username, password, role) ==
  [username |-> username, password |-> password, role |-> role]

\* register: the guard, the role check (the four names, in lower case), the
\* INSERT with its unique username, the response.
register(user, req, cap) ==
  LET id == Len(users) + 1
  IN /\ requests < cap
     /\ requests' = requests + 1
     /\ IF AdminOnly(user) # "ok"
        THEN /\ reply' = Reply("register", AdminOnly(user), [request |-> req])
             /\ UNCHANGED users
        ELSE IF req.role \notin Roles
        THEN /\ reply' = Reply("register", "Validation", [request |-> req])
             /\ UNCHANGED users
        ELSE IF \E i \in 1..Len(users) : users[i].username = req.username
        THEN /\ reply' = Reply("register", "Validation", [request |-> req])
             /\ UNCHANGED users
        ELSE /\ users' = Append(users, UserRow(id, req.username, req.password, req.role))
             /\ reply' = Reply("register", "ok",
                               [request |-> req, user_id |-> id,
                                username |-> req.username, role |-> req.role])
     /\ UNCHANGED <<depreciation_schedule, valuation, scenario, next_scenario_id,
                    valbatch>>
     /\ UNCHANGED <<property, cost_table>>
     /\ UNCHANGED ingestion_vars

\* Role::can_access applied to a pair of roles.
check_can_access(user_role, required_role) ==
  /\ reply' = Reply("can_access", "ok",
                    [user_role |-> user_role, required_role |-> required_role,
                     allowed |-> can_access(user_role, required_role)])
  /\ UNCHANGED analysis_vars
  /\ UNCHANGED <<property, cost_table>>
  /\ UNCHANGED ingestion_vars

(***************************************************************************)
(* process_csv_record: the field map of one row.                           *)
(***************************************************************************)
MaxOf(S) == CHOOSE i \in S : \A k \in S : k <= i

\* header.to_lowercase().replace(" ", "_")
NormalizeHeader(header) == replace(to_lowercase(header), " ", "_")

\* HashMap::insert per header position that the record has a cell for: a later
\* column of the same normalized name replaces an earlier one.
FieldMap(headers, cells) ==
  LET idx == {i \in 1..Len(headers) : i <= Len(cells)}
      keys == {NormalizeHeader(headers[i]) : i \in idx}
  IN [k \in keys |->
        cells[MaxOf({i \in idx : NormalizeHeader(headers[i]) = k})]]

contains_key(data, k) == k \in DOMAIN data
get(data, k) == IF k \in DOMAIN data THEN Some(data[k]) ELSE None

\* AppError::Validation(msg).to_string()
ValidationText(msg) == <<"Validation error: ", msg>>

(***************************************************************************)
(* process_property_record: INSERT INTO property ... ON CONFLICT           *)
(* (parcel_id) DO UPDATE SET every other column.                           *)
(***************************************************************************)
ParsedOption(opt, parsed) == IF opt.some /\ parsed.ok THEN Some(parsed.v) ELSE None

PropertyFields(data) ==
  LET yb == get(data, K_year_built)
      sq == get(data, K_sqft)
  IN [parcel_id |-> data[K_parcel_id],
      address |-> data[K_address],
      owner |-> get(data, K_owner),
      imp_type |-> get(data, K_imp_type),
      quality |-> get(data, K_quality),
      year_built |-> ParsedOption(yb, IF yb.some THEN ParseI32(yb.v) ELSE ParseErr),
      sqft |-> ParsedOption(sq, IF sq.some THEN ParseF64(sq.v) ELSE ParseErr),
      region |-> get(data, K_region)]

PropertyRow(id, f) ==
  [id |-> id, parcel_id |-> f.parcel_id, address |-> f.address, owner |-> f.owner,
   imp_type |-> f.imp_type, quality |-> f.quality, year_built |-> f.year_built,
   sqft |-> f.sqft, region |-> f.region]

PropertyInsertOnly(store, f) == Append(store, PropertyRow(Len(store) + 1, f))

PropertyUpsert(store, f) ==
  IF \E i \in 1..Len(store) : store[i].parcel_id = f.parcel_id
  THEN [i \in 1..Len(store) |->
          IF store[i].parcel_id = f.parcel_id
          THEN PropertyRow(store[i].id, f) ELSE store[i]]
  ELSE Append(store, PropertyRow(Len(store) + 1, f))

(***************************************************************************)
(* cost_table rows.                                                        *)
(***************************************************************************)
Key4(r) == <<r.imp_type, r.quality, r.year, r.region>>

\* The version the store gives a row inserted without one: one more than the
\* highest version stored for the row's (type, quality, year, region).
NewVersion(ct, k4) ==
  LET vs == {r.version : r \in {q \in ct : Key4(q) = k4}}
  IN IF vs = {} THEN 1 ELSE MaxOf(vs) + 1

CostRow(ct, id, f) ==
  [id |-> id, imp_type |-> f.imp_type, quality |-> f.quality, year |-> f.year,
   region |-> f.region, cost_per_sqft |-> f.cost_per_sqft, source |-> f.source,
   notes |-> f.notes, effective_date |-> f.effective_date,
   version |-> NewVersion(ct, Key4(f))]

ConflictTargetNoVersion(r) == Key4(r)

\* The unique key of cost_table, the ON CONFLICT target of the CSV insert.
ConflictTarget(r) == <<r.imp_type, r.quality, r.year, r.region, r.version>>

\* INSERT ... ON CONFLICT (imp_type, quality, year, region, version) DO UPDATE
CostInsertOrUpdate(ct, row) ==
  IF \E r \in ct : ConflictTarget(r) = ConflictTarget(row)
  THEN {IF ConflictTarget(r) = ConflictTarget(row)
        THEN [r EXCEPT !.cost_per_sqft = row.cost_per_sqft, !.source = row.source,
                       !.notes = row.notes, !.effective_date = row.effective_date]
        ELSE r : r \in ct}
  ELSE ct \cup {row}

\* The fields of a cost-table row, or the first failing check's message.
CostFields(data) ==
  LET year == IF contains_key(data, K_year) THEN ParseI32(data[K_year]) ELSE ParseErr
      cost == IF contains_key(data, K_cost_per_sqft)
              THEN ParseF64(data[K_cost_per_sqft]) ELSE ParseErr
      date == IF contains_key(data, K_effective_date)
              THEN ParseDate(data[K_effective_date])
              ELSE [ok |-> TRUE, v |-> Today]
      Fail(msg) == [ok |-> FALSE, err |-> msg, f |-> <<>>]
  IN IF ~contains_key(data, K_imp_type) THEN Fail("Missing imp_type")
     ELSE IF ~contains_key(data, K_quality) THEN Fail("Missing quality")
     ELSE IF ~contains_key(data, K_year) THEN Fail("Missing year")
     ELSE IF ~year.ok THEN Fail("Invalid year format")
     ELSE IF ~contains_key(data, K_region) THEN Fail("Missing region")
     ELSE IF ~contains_key(data, K_cost_per_sqft) THEN Fail("Missing cost_per_sqft")
     ELSE IF ~cost.ok THEN Fail("Invalid cost_per_sqft format")
     ELSE IF ~date.ok THEN Fail("Invalid effective_date format. Use YYYY-MM-DD")
     ELSE [ok |-> TRUE, err |-> "",
           f |-> [imp_type |-> data[K_imp_type], quality |-> data[K_quality],
                  year |-> year.v, region |-> data[K_region],
                  cost_per_sqft |-> cost.v, source |-> get(data, K_source),
                  notes |-> get(data, K_notes), effective_date |-> date.v]]

(***************************************************************************)
(* process_csv_record: what one readable row does to the two stores.       *)
(* wrote is the store the row was written to.                              *)
(***************************************************************************)
RowResult(ok, err, prop, ct, nid, wrote) ==
  [ok |-> ok, err |-> err, property |-> prop, cost_table |-> ct,
   next_cost_id |-> nid, wrote |-> wrote]

process_property_record(prop, ct, nid, data) ==
  RowResult(TRUE, <<>>, PropertyUpsert(prop, PropertyFields(data)), ct, nid,
            "property")

process_cost_table_record(prop, ct, nid, data) ==
  LET c == CostFields(data)
  IN IF ~c.ok THEN RowResult(FALSE, ValidationText(c.err), prop, ct, nid, "none")
     ELSE RowResult(TRUE, <<>>, prop, CostInsertOrUpdate(ct, CostRow(ct, nid, c.f)),
                    nid + 1, "cost_table")

process_csv_record_CostFirst(prop, ct, nid, headers, cells) ==
  LET data == FieldMap(headers, cells)
  IN IF contains_key(data, K_imp_type) /\ contains_key(data, K_cost_per_sqft)
     THEN process_cost_table_record(prop, ct, nid, data)
     ELSE IF contains_key(data, K_parcel_id) /\ contains_key(data, K_address)
     THEN process_property_record(prop, ct, nid, data)
     ELSE RowResult(FALSE,
                    ValidationText("Unknown record type or missing required fields"),
                    prop, ct, nid, "none")

process_csv_record(prop, ct, nid, headers, cells) ==
  LET data == FieldMap(headers, cells)
  IN IF contains_key(data, K_parcel_id) /\ contains_key(data, K_address)
     THEN process_property_record(prop, ct, nid, data)
     ELSE IF contains_key(data, K_imp_type) /\ contains_key(data, K_cost_per_sqft)
     THEN process_cost_table_record(prop, ct, nid, data)
     ELSE RowResult(FALSE,
                    ValidationText("Unknown record type or missing required fields"),
                    prop, ct, nid, "none")

(***************************************************************************)
(* Files long enough to reach the progress checkpoints.                    *)
(***************************************************************************)
\* 2 * CheckpointEvery + 1 property rows, one in fifty unreadable.
LongPropsFile ==
  CsvFile(<<"l",".","c","s","v">>,
          <<<<"p","a","r","c","e","l","_","i","d">>, <<"a","d","d","r","e","s","s">>>>,
          [i \in 1..(2 * CheckpointEvery + 1) |->
             IF i % 50 = 7 THEN CsvBadRow ELSE CsvRow(<<<<"P","1">>, <<"1"," ","A">>>>)])

\* Exactly CheckpointEvery cost-table rows, all but three with a bad year.
LongCostFile ==
  CsvFile(<<"m",".","c","s","v">>,
          <<<<"i","m","p","_","t","y","p","e">>, <<"q","u","a","l","i","t","y">>, <<"y","e","a","r">>, <<"r","e","g","i","o","n">>, <<"c","o","s","t","_","p","e","r","_","s","q","f","t">>>>,
          [i \in 1..CheckpointEvery |->
             IF i % 45 = 1 THEN CsvRow(<<<<"R","E","S">>, <<"A","v","g">>, <<"2","0","2","4">>, <<"N">>, <<"1","0","0">>>>)
             ELSE CsvRow(<<<<"R","E","S">>, <<"A","v","g">>, <<"2","0","x","4">>, <<"N">>, <<"1","0","0">>>>)])

ShortFiles == {"props", "both", "cost", "unknown", "badutf8", "badheader", "excel"}
RejectedFiles == {"text", "empty"}
LongFiles == {"longprops", "longcost"}

\* The bytes behind a file handle.
File(h) ==
  CASE h = "props" -> PropsFile
    [] h = "both" -> BothFile
    [] h = "cost" -> CostFile
    [] h = "unknown" -> UnknownFile
    [] h = "badutf8" -> BadUtf8File
    [] h = "badheader" -> BadHeaderFile
    [] h = "excel" -> ExcelFile
    [] h = "text" -> TextFile
    [] h = "empty" -> EmptyFile
    [] h = "longprops" -> LongPropsFile
    [] h = "longcost" -> LongCostFile
    [] h = "dated" -> DatedCostFile
    [] h = "noquality" -> NoQualityCostFile

(***************************************************************************)
(* upload_batch_file                                                       *)
(***************************************************************************)
\* The file type from the file name's extension.
FileTypeOf(filename) ==
  IF ends_with(filename, <<".","c","s","v">>) THEN "csv"
  ELSE IF ends_with(filename, <<".","x","l","s","x">>) \/ ends_with(filename, <<".","x","l","s">>) THEN "excel"
  ELSE "unsupported"

\* What the extractors and the multipart loop decide before any write.
UploadOutcome(user, h) ==
  IF AssessorOrAbove(user) # "ok" THEN AssessorOrAbove(user)
  ELSE IF FileTypeOf(File(h).filename) = "unsupported" THEN "Validation"
  ELSE IF Len(File(h).filename) = 0 \/ File(h).empty THEN "Validation"
  ELSE "ok"

\* The value of a count column the INSERT leaves out.
InitialCount == 0

NewBatchUploadPending(id, filename, file_type, user_id) ==
  [id |-> id, filename |-> filename, file_type |-> file_type,
   status |-> "pending", total_records |-> InitialCount,
   processed_records |-> InitialCount, error_records |-> InitialCount,
   error_log |-> None, completed |-> FALSE, created_by |-> user_id]

\* INSERT INTO batch_upload (filename, file_type, status, created_by)
\* VALUES ($1, $2, 'processing', $3) RETURNING *
NewBatchUpload(id, filename, file_type, user_id) ==
  [id |-> id, filename |-> filename, file_type |-> file_type,
   status |-> "processing", total_records |-> InitialCount,
   processed_records |-> InitialCount, error_records |-> InitialCount,
   error_log |-> None, completed |-> FALSE, created_by |-> user_id]

NewWorker(h) ==
  [pc |-> "unspawned", file_content |-> h, row_num |-> 0, total_records |-> 0,
   processed_records |-> 0, error_records |-> 0, errors |-> <<>>, result |-> None]

UploadReject(user, h) ==
  /\ UploadOutcome(user, h) # "ok"
  /\ reply' = Reply("upload", UploadOutcome(user, h), <<>>)
  /\ UNCHANGED analysis_vars
  /\ UNCHANGED <<batch_upload, worker, property, cost_table,
                 next_cost_id, bulk, count_writes, upserts, last_applied,
                 api_writes>>

\* The handler up to the INSERT's completion.
UploadInsert(user, h, cap) ==
  /\ UploadOutcome(user, h) = "ok"
  /\ Len(batch_upload) < cap
  /\ batch_upload' = Append(batch_upload,
                            NewBatchUpload(Len(batch_upload) + 1, File(h).filename,
                                           FileTypeOf(File(h).filename), user.user_id))
  /\ worker' = Append(worker, NewWorker(h))
  /\ count_writes' = Append(count_writes, <<>>)
  /\ upserts' = Append(upserts, [property |-> 0, cost_table |-> 0])
  /\ reply' = NoReply
  /\ UNCHANGED analysis_vars
  /\ UNCHANGED <<property, cost_table, next_cost_id, bulk, last_applied, api_writes>>

\* tokio::spawn of the job's task, and the handler's return:
\* Ok(Json(BatchUploadResponse { upload_id, status: "processing", .. }))
UploadSpawn(j) ==
  /\ worker[j].pc = "unspawned"
  /\ worker' = [worker EXCEPT ![j].pc = "start"]
  /\ reply' = Reply("upload", "ok",
                    [upload_id |-> batch_upload[j].id, status |-> "processing"])
  /\ UNCHANGED analysis_vars
  /\ UNCHANGED <<batch_upload, property, cost_table, next_cost_id, bulk,
                 count_writes, upserts, last_applied, api_writes>>

(***************************************************************************)
(* The spawned task: process_csv_file / process_excel_file, then the       *)
(* status update.  One action per store statement the task awaits.         *)
(***************************************************************************)
Ok == [ok |-> TRUE, err |-> <<>>]
Err(text) == [ok |-> FALSE, err |-> text]

\* errors.join("\n")
RECURSIVE Join(_)
Join(lines) ==
  IF Len(lines) = 0 THEN <<>>
  ELSE IF Len(lines) = 1 THEN lines[1]
  ELSE lines[1] \o <<"\n">> \o Join(Tail(lines))

\* format!("Row {}: {}", row_num + 2, e)
ErrorLine(row_num, text) ==
  <<"Row ", ToString(row_num + HeaderRowOffset), ": ">> \o text

\* Where the loop is after a row: at the checkpoint write, at the next row, or
\* past the last row.
AfterRow(total, nrows) == IF total < nrows THEN "rows" ELSE "final"

AfterCountEveryRow(total, nrows) == "checkpoint"

AfterCount(total, nrows) ==
  IF total % CheckpointEvery = 0 THEN "checkpoint" ELSE AfterRow(total, nrows)

\* The task's first poll: the dispatch on the file type, and process_csv_file
\* up to its row loop.
WorkerStart(j) ==
  LET w == worker[j]
      f == File(w.file_content)
      ft == batch_upload[j].file_type
      failed(text) == [w EXCEPT !.pc = "status", !.result = Some(Err(text))]
  IN /\ w.pc = "start"
     /\ worker' = [worker EXCEPT ![j] =
          IF ft = "csv"
          THEN IF ~f.utf8_ok
               THEN failed(ValidationText("Invalid UTF-8 content: <FromUtf8Error>"))
               ELSE IF ~f.header_ok
               THEN failed(ValidationText("CSV header error: <csv::Error>"))
               ELSE [w EXCEPT !.pc = AfterRow(0, Len(f.records))]
          ELSE IF ft = "excel"
          THEN failed(ValidationText(
                 "Excel processing not yet implemented. Please use CSV format."))
          ELSE failed(ValidationText("Unsupported file type"))]
     /\ reply' = NoReply
     /\ UNCHANGED analysis_vars
     /\ UNCHANGED <<batch_upload, property, cost_table, next_cost_id,
                    bulk, count_writes, upserts, last_applied, api_writes>>

RowStepCountAll(w, r, nrows) ==
  [w EXCEPT !.row_num = @ + 1,
            !.total_records = @ + 1,
            !.processed_records = @ + 1,
            !.error_records = IF r.ok THEN @ ELSE @ + 1,
            !.errors = IF r.ok THEN @ ELSE Append(@, ErrorLine(w.row_num, r.err)),
            !.pc = AfterCount(w.total_records + 1, nrows)]

RowStepAbortOnError(w, r, nrows) ==
  IF r.ok
  THEN [w EXCEPT !.row_num = @ + 1,
                 !.total_records = @ + 1,
                 !.processed_records = @ + 1,
                 !.pc = AfterCount(w.total_records + 1, nrows)]
  ELSE [w EXCEPT !.pc = "status", !.result = Some(Err(r.err))]

\* The task's local variables after the row whose outcome is r: the counters,
\* the error lines, and where the loop goes next.
RowStep(w, r, nrows) ==
  [w EXCEPT !.row_num = @ + 1,
            !.total_records = @ + 1,
            !.processed_records = IF r.ok THEN @ + 1 ELSE @,
            !.error_records = IF r.ok THEN @ ELSE @ + 1,
            !.errors = IF r.ok THEN @ ELSE Append(@, ErrorLine(w.row_num, r.err)),
            !.pc = AfterCount(w.total_records + 1, nrows)]

\* One iteration of the row loop, up to the progress check.
ProcessRow(j) ==
  LET w == worker[j]
      f == File(w.file_content)
      rec == f.records[w.row_num + 1]
      r == IF rec.ok
           THEN process_csv_record(property, cost_table, next_cost_id,
                                   f.headers, rec.cells)
           ELSE RowResult(FALSE, <<"CSV parsing error: ", "<csv::Error>">>,
                          property, cost_table, next_cost_id, "none")
  IN /\ w.pc = "rows"
     /\ worker' = [worker EXCEPT ![j] = RowStep(w, r, Len(f.records))]
     /\ property' = r.property
     /\ cost_table' = r.cost_table
     /\ next_cost_id' = r.next_cost_id
     /\ upserts' = [upserts EXCEPT ![j] =
          [property |-> IF r.wrote = "property" THEN @.property + 1 ELSE @.property,
           cost_table |-> IF r.wrote = "cost_table" THEN @.cost_table + 1
                          ELSE @.cost_table]]
     /\ last_applied' =
          IF r.wrote = "property"
          THEN LET fl == PropertyFields(FieldMap(f.headers, rec.cells))
               IN (fl.parcel_id :> fl) @@ last_applied
          ELSE last_applied
     /\ reply' = NoReply
     /\ UNCHANGED analysis_vars
     /\ UNCHANGED <<batch_upload, bulk, count_writes, api_writes>>

\* UPDATE batch_upload SET total_records, processed_records, error_records
\* WHERE id = batch_id, every CheckpointEvery rows.
Checkpoint(j) ==
  LET w == worker[j]
  IN /\ w.pc = "checkpoint"
     /\ batch_upload' = [batch_upload EXCEPT
          ![j].total_records = w.total_records,
          ![j].processed_records = w.processed_records,
          ![j].error_records = w.error_records]
     /\ count_writes' = [count_writes EXCEPT ![j] = Append(@, w.total_records)]
     /\ worker' = [worker EXCEPT ![j].pc =
          AfterRow(w.total_records, Len(File(w.file_content).records))]
     /\ reply' = NoReply
     /\ UNCHANGED analysis_vars
     /\ UNCHANGED <<property, cost_table, next_cost_id, bulk, upserts,
                    last_applied, api_writes>>

\* The final counts written without the WHERE id = batch_id.
FinalUpdateAllRows(j) ==
  LET w == worker[j]
  IN /\ w.pc = "final"
     /\ batch_upload' = [i \in Jobs |->
          [batch_upload[i] EXCEPT
             !.total_records = w.total_records,
             !.processed_records = w.processed_records,
             !.error_records = w.error_records,
             !.error_log = IF Len(w.errors) = 0 THEN None ELSE Some(Join(w.errors))]]
     /\ count_writes' = [count_writes EXCEPT ![j] = Append(@, w.total_records)]
     /\ worker' = [worker EXCEPT ![j].pc = "status", ![j].result = Some(Ok)]
     /\ reply' = NoReply
     /\ UNCHANGED analysis_vars
     /\ UNCHANGED <<property, cost_table, next_cost_id, bulk, upserts,
                    last_applied, api_writes>>

\* The final update of process_csv_file: the counts and the error log.
FinalUpdate(j) ==
  LET w == worker[j]
  IN /\ w.pc = "final"
     /\ batch_upload' = [batch_upload EXCEPT
          ![j].total_records = w.total_records,
          ![j].processed_records = w.processed_records,
          ![j].error_records = w.error_records,
          ![j].error_log = IF Len(w.errors) = 0 THEN None ELSE Some(Join(w.errors))]
     /\ count_writes' = [count_writes EXCEPT ![j] = Append(@, w.total_records)]
     /\ worker' = [worker EXCEPT ![j].pc = "status", ![j].result = Some(Ok)]
     /\ reply' = NoReply
     /\ UNCHANGED analysis_vars
     /\ UNCHANGED <<property, cost_table, next_cost_id, bulk, upserts,
                    last_applied, api_writes>>

StatusOfAlwaysCompleted(result) == "completed"

StatusOfStaysProcessing(result) == "processing"

\* let status = if result.is_ok() { "completed" } else { "failed" };
StatusOf(result) == IF result.ok THEN "completed" ELSE "failed"

StatusUpdateAllRows(j) ==
  LET w == worker[j]
  IN /\ w.pc = "status"
     /\ batch_upload' = [i \in Jobs |->
          [batch_upload[i] EXCEPT
             !.status = StatusOf(w.result.v),
             !.error_log = IF w.result.v.ok THEN None ELSE Some(w.result.v.err),
             !.completed = TRUE]]
     /\ worker' = [worker EXCEPT ![j].pc = "done"]
     /\ reply' = NoReply
     /\ UNCHANGED analysis_vars
     /\ UNCHANGED <<property, cost_table, next_cost_id, bulk,
                    count_writes, upserts, last_applied, api_writes>>

\* A status write that also sets the counts back to zero.
StatusUpdateResettingCounts(j) ==
  LET w == worker[j]
  IN /\ w.pc = "status"
     /\ batch_upload' = [batch_upload EXCEPT
          ![j].status = StatusOf(w.result.v),
          ![j].error_log = IF w.result.v.ok THEN None ELSE Some(w.result.v.err),
          ![j].completed = TRUE,
          ![j].total_records = 0,
          ![j].processed_records = 0,
          ![j].error_records = 0]
     /\ worker' = [worker EXCEPT ![j].pc = "done"]
     /\ reply' = NoReply
     /\ UNCHANGED analysis_vars
     /\ UNCHANGED <<property, cost_table, next_cost_id, bulk,
                    count_writes, upserts, last_applied, api_writes>>

\* UPDATE batch_upload SET status, error_log, completed_at WHERE id
StatusUpdate(j) ==
  LET w == worker[j]
  IN /\ w.pc = "status"
     /\ batch_upload' = [batch_upload EXCEPT
          ![j].status = StatusOf(w.result.v),
          ![j].error_log = IF w.result.v.ok THEN None ELSE Some(w.result.v.err),
          ![j].completed = TRUE]
     /\ worker' = [worker EXCEPT ![j].pc = "done"]
     /\ reply' = NoReply
     /\ UNCHANGED analysis_vars
     /\ UNCHANGED <<property, cost_table, next_cost_id, bulk,
                    count_writes, upserts, last_applied, api_writes>>

\* The points of a job's task, and of the handler that spawns it, that lie
\* before the completion of the status write.
BeforeStatusWrite == {"unspawned", "start", "rows", "checkpoint", "final", "status"}

\* A supervisor that marks the job of a task that stopped as failed.
WorkerStopsMarkedFailed(j) ==
  /\ worker[j].pc \in BeforeStatusWrite
  /\ worker' = [worker EXCEPT ![j].pc = "stopped"]
  /\ batch_upload' = [batch_upload EXCEPT ![j].status = "failed"]
  /\ reply' = NoReply
  /\ UNCHANGED analysis_vars
  /\ UNCHANGED <<property, cost_table, next_cost_id, bulk,
                 count_writes, upserts, last_applied, api_writes>>

\* The task spawned by tokio::spawn ends before its status write (a panic in
\* the task): its JoinHandle is dropped, nothing observes the end, no
\* statement runs for the job.
WorkerStops(j) ==
  /\ worker[j].pc \in BeforeStatusWrite
  /\ worker' = [worker EXCEPT ![j].pc = "stopped"]
  /\ reply' = NoReply
  /\ UNCHANGED analysis_vars
  /\ UNCHANGED <<batch_upload, property, cost_table, next_cost_id, bulk,
                 count_writes, upserts, last_applied, api_writes>>

\* The process restarts: every task that has not completed its status write
\* is gone, and nothing in main respawns a task for a stored job.
Restart ==
  /\ \E j \in Jobs : worker[j].pc \in BeforeStatusWrite
  /\ worker' = [j \in Jobs |->
                  IF worker[j].pc \in BeforeStatusWrite
                  THEN [worker[j] EXCEPT !.pc = "stopped"] ELSE worker[j]]
  /\ reply' = NoReply
  /\ UNCHANGED analysis_vars
  /\ UNCHANGED <<batch_upload, property, cost_table, next_cost_id, bulk,
                 count_writes, upserts, last_applied, api_writes>>

(***************************************************************************)
(* get_batch_status, get_batch_history                                     *)
(***************************************************************************)
HistoryLimit == 50

\* SELECT * FROM batch_upload WHERE id = $1 AND created_by = $2
GetBatchStatus(user, id) ==
  /\ reply' = IF id \in Jobs /\ batch_upload[id].created_by = user.user_id
              THEN Reply("status", "ok", batch_upload[id])
              ELSE Reply("status", "NotFound", <<>>)
  /\ UNCHANGED analysis_vars
  /\ UNCHANGED <<batch_upload, worker, property, cost_table,
                 next_cost_id, bulk, count_writes, upserts, last_applied,
                 api_writes>>

\* The ids of the user's jobs, newest first.
RECURSIVE NewestFirst(_, _)
NewestFirst(user_id, n) ==
  IF n = 0 THEN <<>>
  ELSE IF batch_upload[n].created_by = user_id
  THEN <<batch_upload[n]>> \o NewestFirst(user_id, n - 1)
  ELSE NewestFirst(user_id, n - 1)

\* SELECT * FROM batch_upload WHERE created_by = $1
\* ORDER BY created_at DESC LIMIT 50
GetBatchHistory(user) ==
  LET all == NewestFirst(user.user_id, Len(batch_upload))
  IN /\ reply' = Reply("history", "ok",
                       SubSeq(all, 1, IF Len(all) < HistoryLimit THEN Len(all)
                                      ELSE HistoryLimit))
     /\ UNCHANGED analysis_vars
     /\ UNCHANGED <<batch_upload, worker, property, cost_table,
                    next_cost_id, bulk, count_writes, upserts, last_applied,
                    api_writes>>

(***************************************************************************)
(* api/cost_table.rs: create_cost_table, bulk_import, delete_cost_table.   *)
(***************************************************************************)
CostRequest(region, cost, date) ==
  [imp_type |-> <<"R","E","S">>, quality |-> <<"A","v","g">>, year |-> 2024, region |-> region,
   cost_per_sqft |-> Fin(cost, 2), source |-> None, notes |-> None,
   effective_date |-> date]

CreateRequests ==
  {CostRequest(<<"N">>, 11000, <<"2","0","2","4","-","0","1","-","1","5">>),
   CostRequest(<<"N">>, 12000, <<"0","1","/","1","5","/","2","0","2","4">>)}

BulkRequests ==
  {<<CostRequest(<<"N">>, 11000, <<"2","0","2","4","-","0","1","-","1","5">>), CostRequest(<<"S">>, 9000, <<"2","0","2","4","-","0","2","-","3","0">>)>>}

\* The row a request inserts, once its date has parsed.
RequestRow(ct, id, req, date) ==
  CostRow(ct, id, [req EXCEPT !.effective_date = date])

\* A plain INSERT: a row with the unique key of a stored row is refused.
UniqueViolation(ct, row) == \E r \in ct : ConflictTarget(r) = ConflictTarget(row)

create_cost_table(user, req) ==
  LET date == ParseDate(req.effective_date)
      row == RequestRow(cost_table, next_cost_id, req, date.v)
  IN /\ api_writes < MaxApiWrites
     /\ api_writes' = api_writes + 1
     /\ IF AssessorOrAbove(user) # "ok"
        THEN /\ reply' = Reply("create_cost_table", AssessorOrAbove(user), <<>>)
             /\ UNCHANGED <<cost_table, next_cost_id>>
        ELSE IF ~date.ok
        THEN /\ reply' = Reply("create_cost_table", "Validation", <<>>)
             /\ UNCHANGED <<cost_table, next_cost_id>>
        ELSE IF UniqueViolation(cost_table, row)
        THEN /\ reply' = Reply("create_cost_table", "Validation", <<>>)
             /\ next_cost_id' = next_cost_id + 1
             /\ UNCHANGED cost_table
        ELSE /\ reply' = Reply("create_cost_table", "ok", row)
             /\ cost_table' = cost_table \cup {row}
             /\ next_cost_id' = next_cost_id + 1
     /\ UNCHANGED analysis_vars
     /\ UNCHANGED <<batch_upload, worker, property, bulk, count_writes,
                    upserts, last_applied>>

\* bulk_import up to its loop: the guard and the size cap.
BulkStart(user, items) ==
  /\ api_writes < MaxApiWrites
  /\ api_writes' = api_writes + 1
  /\ IF AssessorOrAbove(user) # "ok"
     THEN /\ reply' = Reply("bulk_import", AssessorOrAbove(user), <<>>)
          /\ UNCHANGED bulk
     ELSE IF Len(items) > BulkImportCap
     THEN /\ reply' = Reply("bulk_import", "Validation", <<>>)
          /\ UNCHANGED bulk
     ELSE /\ reply' = NoReply
          /\ bulk' = Append(bulk, [items |-> items, index |-> 0, successful |-> 0,
                                   errors |-> <<>>])
  /\ UNCHANGED analysis_vars
  /\ UNCHANGED <<batch_upload, worker, property, cost_table,
                 next_cost_id, count_writes, upserts, last_applied>>

RemoveAt(q, b) == [i \in 1..(Len(q) - 1) |-> IF i < b THEN q[i] ELSE q[i + 1]]

\* One iteration of bulk_import's loop; after the last one, the response.
BulkStep(b) ==
  LET rq == bulk[b]
      req == rq.items[rq.index + 1]
      date == ParseDate(req.effective_date)
      row == RequestRow(cost_table, next_cost_id, req, date.v)
      inserted == date.ok /\ ~UniqueViolation(cost_table, row)
      after == [rq EXCEPT
                  !.index = @ + 1,
                  !.successful = IF inserted THEN @ + 1 ELSE @,
                  !.errors = IF inserted THEN @ ELSE Append(@, rq.index)]
  IN /\ b \in 1..Len(bulk)
     /\ cost_table' = IF inserted THEN cost_table \cup {row} ELSE cost_table
     /\ next_cost_id' = IF date.ok THEN next_cost_id + 1 ELSE next_cost_id
     /\ IF after.index = Len(rq.items)
        THEN /\ bulk' = RemoveAt(bulk, b)
             /\ reply' = Reply("bulk_import", "ok",
                               [total_requested |-> Len(rq.items),
                                successful |-> after.successful,
                                errors |-> Len(after.errors),
                                error_details |-> after.errors])
        ELSE /\ bulk' = [bulk EXCEPT ![b] = after]
             /\ reply' = NoReply
     /\ UNCHANGED analysis_vars
     /\ UNCHANGED <<batch_upload, worker, property, count_writes,
                    upserts, last_applied, api_writes>>

\* DELETE FROM cost_table WHERE id = $1
delete_cost_table(user, id) ==
  /\ api_writes < MaxApiWrites
  /\ api_writes' = api_writes + 1
  /\ IF AdminOnly(user) # "ok"
     THEN /\ reply' = Reply("delete_cost_table", AdminOnly(user), <<>>)
          /\ UNCHANGED cost_table
     ELSE IF ~\E r \in cost_table : r.id = id
     THEN /\ reply' = Reply("delete_cost_table", "NotFound", <<>>)
          /\ UNCHANGED cost_table
     ELSE /\ reply' = Reply("delete_cost_table", "ok", [id |-> id])
          /\ cost_table' = {r \in cost_table : r.id # id}
  /\ UNCHANGED analysis_vars
  /\ UNCHANGED <<batch_upload, worker, property, next_cost_id, bulk,
                 count_writes, upserts, last_applied>>

\* DELETE /api/cost-table/:id.  The handler's arguments are extracted in
\* order: Path<i32> decodes the path segment before AdminOnly reads the
\* credential, and a segment that is no i32 is answered 400 by the Path
\* rejection.
delete_cost_table_route(user, segment) ==
  IF ParseI32(segment).ok
  THEN delete_cost_table(user, ParseI32(segment).v)
  ELSE /\ reply' = Reply("delete_cost_table", "PathRejection", <<>>)
       /\ UNCHANGED analysis_vars
       /\ UNCHANGED <<property, cost_table>>
       /\ UNCHANGED ingestion_vars

\* The query string of GET /api/cost-table/lookup: every field is optional.
CostTableQuery(imp_type, quality, year, region) ==
  [imp_type |-> imp_type, quality |-> quality, year |-> year, region |-> region]

\* The rows "ORDER BY version DESC LIMIT 1" may return: those of the highest
\* version among the rows of the key.  The database is free to pick any of
\* them when there are several.
TopVersionRows(ct, imp_type, quality, year, region) ==
  LET rows == {r \in ct : Key4(r) = <<imp_type, quality, year, region>>}
  IN {r \in rows : \A q \in rows : q.version <= r.version}

\* The answer of lookup_cost_factor for the row the query returned, if any.
LookupAnswer(query, row) ==
  [query |-> query, found |-> row.some, cost_table |-> row]

lookup_cost_factor_AnyVersion(user, query) ==
  /\ Authenticated(user)
  /\ query.imp_type.some /\ query.quality.some /\ query.year.some /\ query.region.some
  /\ \E r \in {q \in cost_table : Key4(q) = <<query.imp_type.v, query.quality.v, query.year.v, query.region.v>>} :
        reply' = Reply("lookup_cost_factor", "ok", LookupAnswer(query, Some(r)))
  /\ UNCHANGED analysis_vars
  /\ UNCHANGED <<property, cost_table>>
  /\ UNCHANGED ingestion_vars

\* GET /api/cost-table/lookup.  The credential is read before the handler's
\* body runs; the four parameters are then required one by one, and a key
\* without a row is answered 200 with found: false.
lookup_cost_factor(user, query) ==
  LET top == TopVersionRows(cost_table, query.imp_type.v, query.quality.v, query.year.v, query.region.v)
  IN /\ IF ~Authenticated(user)
        THEN reply' = Reply("lookup_cost_factor", "Authentication", <<>>)
        ELSE IF ~(query.imp_type.some /\ query.quality.some /\ query.year.some /\ query.region.some)
        THEN reply' = Reply("lookup_cost_factor", "Validation", <<>>)
        ELSE IF top = {}
        THEN reply' = Reply("lookup_cost_factor", "ok", LookupAnswer(query, None))
        ELSE \E r \in top :
               reply' = Reply("lookup_cost_factor", "ok", LookupAnswer(query, Some(r)))
     /\ UNCHANGED analysis_vars
     /\ UNCHANGED <<property, cost_table>>
     /\ UNCHANGED ingestion_vars

(***************************************************************************)
(* services/valuation.rs: the valuation engine.                            *)
(***************************************************************************)
\* chrono::Utc::now().year()
CurrentYear == 2026

DefaultMarketFactor == Fin(105, 2)
DefaultLocationFactor == Fin(102, 2)

calculate_rcn(base_cost, sqft, market_factor, location_factor) ==
  FMul(FMul(FMul(base_cost, sqft), market_factor), location_factor)

apply_depreciation(rcn, percent_good) == FMul(rcn, percent_good)

get_cost_factor_CrossRegion(ct, imp_type, quality, year, region) ==
  LET rows == {r \in ct : /\ r.imp_type = imp_type
                          /\ r.quality = quality
                          /\ r.year = year}
  IN IF rows = {} THEN None
     ELSE Some(CHOOSE r \in rows : \A q \in rows : q.version <= r.version)

\* SELECT * FROM cost_table WHERE imp_type = $1 AND quality = $2 AND year = $3
\* AND region = $4 ORDER BY version DESC LIMIT 1
get_cost_factor(ct, imp_type, quality, year, region) ==
  LET rows == {r \in ct : /\ r.imp_type = imp_type
                          /\ r.quality = quality
                          /\ r.year = year
                          /\ r.region = region}
  IN IF rows = {} THEN None
     ELSE Some(CHOOSE r \in rows : \A q \in rows : q.version <= r.version)

get_depreciation_factor_NearestLower(ds, schedule_type, effective_age) ==
  LET rows == {d \in ds : d.schedule_type = schedule_type}
      below == {d \in rows : d.effective_age <= effective_age}
  IN IF below # {}
     THEN Some((CHOOSE d \in below :
                  \A q \in below : q.effective_age <= d.effective_age).percent_good)
     ELSE IF rows # {}
     THEN Some((CHOOSE d \in rows :
                  \A q \in rows : d.effective_age <= q.effective_age).percent_good)
     ELSE None

\* The first query (effective_age >= $2 ORDER BY effective_age ASC LIMIT 1),
\* then the fallback (ORDER BY effective_age DESC LIMIT 1).
get_depreciation_factor(ds, schedule_type, effective_age) ==
  LET rows == {d \in ds : d.schedule_type = schedule_type}
      above == {d \in rows : d.effective_age >= effective_age}
  IN IF above # {}
     THEN Some((CHOOSE d \in above :
                  \A q \in above : d.effective_age <= q.effective_age).percent_good)
     ELSE IF rows # {}
     THEN Some((CHOOSE d \in rows :
                  \A q \in rows : q.effective_age <= d.effective_age).percent_good)
     ELSE None

\* Whether a - b leaves the i32 range, and the value wrapping arithmetic gives.
SubOverflows(a, b) ==
  \/ b < 0 /\ a > I32Max + b
  \/ b > 0 /\ a < (0 - I32Max - 1) + b

WrappingSub(a, b) ==
  IF b < 0 /\ a > I32Max + b THEN (a - I32Max - 1) - (b + I32Max + 1)
  ELSE IF b > 0 /\ a < (0 - I32Max - 1) + b
  THEN (a + I32Max + 1) - (b - I32Max - 1)
  ELSE a - b

\* What current_year - year_built does when the difference leaves the i32
\* range: a build with overflow checks panics, a build without them wraps.
OverflowOutcomes == {"panic", "wrap"}

Max0(n) == IF n < 0 THEN 0 ELSE n

CalcErr(kind) == [ok |-> FALSE, kind |-> kind, v |-> <<>>]

\* calculate_valuation_with_db.  The result's numbers are those of the json!
\* value it builds.
calculate_valuation_with_db(ct, ds, parcel_id, imp_type, quality, sqft, year_built, region, market_factor, location_factor, overflow) ==
  LET current_year == CurrentYear
      effective_age == Max0(WrappingSub(current_year, year_built))
      cost == get_cost_factor(ct, imp_type, quality, current_year, region)
      percent_good == get_depreciation_factor(ds, imp_type, effective_age)
      market == IF market_factor.some THEN market_factor.v ELSE DefaultMarketFactor
      location == IF location_factor.some THEN location_factor.v
                  ELSE DefaultLocationFactor
      rcn == calculate_rcn(cost.v.cost_per_sqft, sqft, market, location)
      final_value == apply_depreciation(rcn, percent_good.v)
  IN IF SubOverflows(current_year, year_built) /\ overflow = "panic"
     THEN CalcErr("panic")
     ELSE IF ~cost.some THEN CalcErr("NotFound")
     ELSE IF ~percent_good.some THEN CalcErr("NotFound")
     ELSE [ok |-> TRUE, kind |-> "ok",
           v |-> [parcel_id |-> parcel_id,
                  calculation_details |->
                    [base_cost_per_sqft |-> JsonNumber(cost.v.cost_per_sqft),
                     sqft |-> JsonNumber(sqft),
                     market_factor |-> JsonNumber(market),
                     location_factor |-> JsonNumber(location),
                     effective_age |-> effective_age,
                     percent_good |-> JsonNumber(percent_good.v),
                     rcn |-> JsonNumber(rcn),
                     final_value |-> JsonNumber(final_value)],
                  cost_source |-> [source |-> cost.v.source,
                                   version |-> cost.v.version,
                                   effective_date |-> cost.v.effective_date],
                  summary |-> [imp_type |-> imp_type, quality |-> quality,
                               year_built |-> year_built, region |-> region,
                               final_value |-> JsonNumber(final_value)]]]

\* INSERT INTO valuation ... RETURNING *
ValuationRow(id, parcel_id, imp_type, quality, sqft, year_built, region, rcn, percent_good, final_value, calculation_chain, created_by) ==
  [id |-> id, parcel_id |-> parcel_id, imp_type |-> imp_type,
   quality |-> quality, sqft |-> sqft, year_built |-> year_built,
   region |-> region, rcn |-> rcn, percent_good |-> percent_good,
   final_value |-> final_value, calculation_chain |-> calculation_chain,
   created_by |-> created_by]

ValuationsOf(store, parcel_id) == {i \in 1..Len(store) : store[i].parcel_id = parcel_id}

save_valuation_Replacing(store, parcel_id, imp_type, quality, sqft, year_built, region, rcn, percent_good, final_value, calculation_chain, created_by) ==
  IF ValuationsOf(store, parcel_id) = {}
  THEN Append(store, ValuationRow(Len(store) + 1, parcel_id, imp_type, quality, sqft, year_built, region, rcn, percent_good, final_value, calculation_chain, created_by))
  ELSE [store EXCEPT ![MaxOf(ValuationsOf(store, parcel_id))] = ValuationRow(@.id, parcel_id, imp_type, quality, sqft, year_built, region, rcn, percent_good, final_value, calculation_chain, created_by)]

save_valuation(store, parcel_id, imp_type, quality, sqft, year_built, region, rcn, percent_good, final_value, calculation_chain, created_by) ==
  Append(store, ValuationRow(Len(store) + 1, parcel_id, imp_type, quality, sqft,
                             year_built, region, rcn, percent_good, final_value,
                             calculation_chain, created_by))

\* as_f64().unwrap_or(0.0)
UnwrapOrZero(v) == IF as_f64(v).some THEN as_f64(v).v ELSE Fin(0, 0)

\* The improvement types, qualities and regions of the stored rows.
RES == <<"R","E","S">>
IND == <<"I","N","D">>
COM == <<"C","O","M">>
QA == <<"A">>
QB == <<"B">>
RN == <<"N">>
RS == <<"S">>

(***************************************************************************)
(* The stores the valuation and scenario requests run against: what        *)
(* ingesting two files leaves in property and cost_table, and the rows of  *)
(* depreciation_schedule, a table no code of the repository writes.        *)
(***************************************************************************)
\* Properties 1 to 8: a RES/A property of age 7 in region N, one of age 25 in
\* region S, one built this year, a RES/B property, an IND property, a COM
\* property, one without a year built, one with a year built near the i32
\* minimum.
SeedPropertyFile ==
  CsvFile(<<"p",".","c","s","v">>,
          <<<<"p","a","r","c","e","l","_","i","d">>, <<"a","d","d","r","e","s","s">>, <<"i","m","p","_","t","y","p","e">>, <<"q","u","a","l","i","t","y">>, <<"y","e","a","r","_","b","u","i","l","t">>, <<"s","q","f","t">>, <<"r","e","g","i","o","n">>>>,
          <<CsvRow(<<<<"S","1">>, <<"1"," ","A">>, <<"R","E","S">>, <<"A">>, <<"2","0","1","9">>, <<"1","0">>, <<"N">>>>),
            CsvRow(<<<<"S","2">>, <<"2"," ","B">>, <<"R","E","S">>, <<"A">>, <<"2","0","0","1">>, <<"1","0">>, <<"S">>>>),
            CsvRow(<<<<"S","3">>, <<"3"," ","C">>, <<"R","E","S">>, <<"A">>, <<"2","0","2","6">>, <<"2","0">>, <<"N">>>>),
            CsvRow(<<<<"S","4">>, <<"4"," ","D">>, <<"R","E","S">>, <<"B">>, <<"2","0","1","9">>, <<"1","0">>, <<"N">>>>),
            CsvRow(<<<<"S","5">>, <<"5"," ","E">>, <<"I","N","D">>, <<"A">>, <<"2","0","1","9">>, <<"1","0">>, <<"N">>>>),
            CsvRow(<<<<"S","6">>, <<"6"," ","F">>, <<"C","O","M">>, <<"A">>, <<"2","0","1","9">>, <<"1","0">>, <<"N">>>>),
            CsvRow(<<<<"S","7">>, <<"7"," ","G">>, <<"R","E","S">>, <<"A">>, <<"n","/","a">>, <<"1","0">>, <<"N">>>>),
            CsvRow(<<<<"S","8">>, <<"8"," ","H">>, <<"R","E","S">>, <<"A">>, <<"-","2","1","4","7","4","8","3","6","4","7">>, <<"1","0">>, <<"N">>>>)>>)

\* Two versions of RES/A/N for the current year, the same four fields for the
\* year before, RES/A/S, IND/A/N, and a COM/A/N row whose cost is infinite.
SeedCostFile ==
  CsvFile(<<"k",".","c","s","v">>,
          <<<<"i","m","p","_","t","y","p","e">>, <<"q","u","a","l","i","t","y">>, <<"y","e","a","r">>, <<"r","e","g","i","o","n">>, <<"c","o","s","t","_","p","e","r","_","s","q","f","t">>>>,
          <<CsvRow(<<<<"R","E","S">>, <<"A">>, <<"2","0","2","6">>, <<"N">>, <<"2",".","0","0">>>>),
            CsvRow(<<<<"R","E","S">>, <<"A">>, <<"2","0","2","6">>, <<"N">>, <<"3",".","0","0">>>>),
            CsvRow(<<<<"R","E","S">>, <<"A">>, <<"2","0","2","5">>, <<"N">>, <<"7",".","0","0">>>>),
            CsvRow(<<<<"R","E","S">>, <<"A">>, <<"2","0","2","6">>, <<"S">>, <<"5",".","0","0">>>>),
            CsvRow(<<<<"I","N","D">>, <<"A">>, <<"2","0","2","6">>, <<"N">>, <<"4",".","0","0">>>>),
            CsvRow(<<<<"C","O","M">>, <<"A">>, <<"2","0","2","6">>, <<"N">>, <<"i","n","f">>>>)>>)

\* What process_csv_record leaves after the first n rows of a file.
RECURSIVE Ingest(_, _, _)
Ingest(f, n, acc) ==
  IF n = 0 THEN acc
  ELSE LET before == Ingest(f, n - 1, acc)
           rec == f.records[n]
           r == process_csv_record(before.property, before.cost_table,
                                   before.next_cost_id, f.headers, rec.cells)
       IN IF rec.ok /\ r.ok
          THEN [property |-> r.property, cost_table |-> r.cost_table,
                next_cost_id |-> r.next_cost_id]
          ELSE before

Seeded ==
  Ingest(SeedCostFile, Len(SeedCostFile.records),
         Ingest(SeedPropertyFile, Len(SeedPropertyFile.records),
                [property |-> <<>>, cost_table |-> {}, next_cost_id |-> 1]))

DepreciationRow(schedule_type, effective_age, percent_good) ==
  [schedule_type |-> schedule_type, effective_age |-> effective_age,
   percent_good |-> percent_good]

\* RES at ages 5, 10 and 20; COM at age 10; nothing for IND.
SeedDepreciation ==
  {DepreciationRow(RES, 5, Fin(90, 2)),
   DepreciationRow(RES, 10, Fin(80, 2)),
   DepreciationRow(RES, 20, Fin(60, 2)),
   DepreciationRow(COM, 10, Fin(75, 2))}

(***************************************************************************)
(* api/valuation.rs: create_valuation and batch_valuation.                 *)
(***************************************************************************)
MaxRequests == 2
BatchValuationCap == 1000

\* SELECT ... FROM property WHERE id = $1
PropertyById(id) ==
  IF id \in 1..Len(property) THEN Some(property[id]) ELSE None

ValuationRequest(parcel_id, imp_type, quality, sqft, year_built, region) ==
  [parcel_id |-> parcel_id, imp_type |-> imp_type, quality |-> quality,
   sqft |-> sqft, year_built |-> year_built, region |-> region]

\* Request bodies: ages 7, 10, 25, 0 and a year built in the future, a property
\* id that is not stored, a quality without a cost factor, a type without a
\* depreciation schedule, the same type in a region without a cost factor, the type whose cost is infinite, a year
\* built near the i32 minimum.
ValuationRequests ==
  {ValuationRequest(1, RES, QA, Fin(10, 0), 2019, RN),
   ValuationRequest(1, RES, QA, Fin(10, 0), 2016, RN),
   ValuationRequest(2, RES, QA, Fin(10, 0), 2001, RS),
   ValuationRequest(3, RES, QA, Fin(20, 0), 2026, RN),
   ValuationRequest(3, RES, QA, Fin(20, 0), 2030, RN),
   ValuationRequest(9, RES, QA, Fin(10, 0), 2019, RN),
   ValuationRequest(4, RES, QB, Fin(10, 0), 2019, RN),
   ValuationRequest(5, IND, QA, Fin(10, 0), 2019, RN),
   ValuationRequest(5, IND, QA, Fin(10, 0), 2019, RS),
   ValuationRequest(6, COM, QA, Fin(10, 0), 2019, RN),
   ValuationRequest(8, RES, QA, Fin(10, 0), 0 - I32Max, RN)}

create_valuation(user, req, overflow, cap) ==
  LET calculation ==
        calculate_valuation_with_db(cost_table, depreciation_schedule,
                                    req.parcel_id, req.imp_type, req.quality,
                                    req.sqft, req.year_built, req.region,
                                    None, None, overflow)
      calc_details == calculation.v.calculation_details
      saved == save_valuation(valuation, req.parcel_id, req.imp_type,
                              req.quality, req.sqft, req.year_built, req.region,
                              UnwrapOrZero(calc_details.rcn),
                              UnwrapOrZero(calc_details.percent_good),
                              UnwrapOrZero(calc_details.final_value),
                              calculation.v, Some(user.user_id))
  IN /\ requests < cap
     /\ requests' = requests + 1
     /\ IF AnalystOrAbove(user) # "ok"
        THEN /\ reply' = Reply("create_valuation", AnalystOrAbove(user),
                               [request |-> req])
             /\ UNCHANGED valuation
        ELSE IF ~PropertyById(req.parcel_id).some
        THEN /\ reply' = Reply("create_valuation", "NotFound",
                               [request |-> req])
             /\ UNCHANGED valuation
        ELSE IF ~calculation.ok
        THEN /\ reply' = Reply("create_valuation", calculation.kind,
                               [request |-> req])
             /\ UNCHANGED valuation
        ELSE /\ valuation' = saved
             /\ reply' = Reply("create_valuation", "ok",
                               [valuation |-> saved[Len(saved)],
                                calculation |-> calculation.v,
                                request |-> req])
     /\ UNCHANGED <<users, depreciation_schedule, scenario, next_scenario_id, valbatch>>
     /\ UNCHANGED <<property, cost_table>>
     /\ UNCHANGED ingestion_vars

\* batch_valuation up to the loop of batch_valuate_properties: the guard and
\* the size cap.
BatchValuationStartCapInclusive(user, property_ids, cap) ==
  /\ requests < cap
  /\ requests' = requests + 1
  /\ IF AnalystOrAbove(user) # "ok"
     THEN /\ reply' = Reply("batch_valuation", AnalystOrAbove(user),
                          [property_ids |-> property_ids])
          /\ UNCHANGED valbatch
     ELSE IF Len(property_ids) >= BatchValuationCap
     THEN /\ reply' = Reply("batch_valuation", "Validation",
                          [property_ids |-> property_ids])
          /\ UNCHANGED valbatch
     ELSE /\ reply' = NoReply
          /\ valbatch' = Append(valbatch,
                                [property_ids |-> property_ids, index |-> 0,
                                 results |-> <<>>, persisted |-> <<>>,
                                 created_by |-> Some(user.user_id)])
  /\ UNCHANGED <<users, depreciation_schedule, valuation, scenario, next_scenario_id>>
  /\ UNCHANGED <<property, cost_table>>
  /\ UNCHANGED ingestion_vars

BatchValuationStart(user, property_ids, cap) ==
  /\ requests < cap
  /\ requests' = requests + 1
  /\ IF AnalystOrAbove(user) # "ok"
     THEN /\ reply' = Reply("batch_valuation", AnalystOrAbove(user),
                          [property_ids |-> property_ids])
          /\ UNCHANGED valbatch
     ELSE IF Len(property_ids) > BatchValuationCap
     THEN /\ reply' = Reply("batch_valuation", "Validation",
                          [property_ids |-> property_ids])
          /\ UNCHANGED valbatch
     ELSE /\ reply' = NoReply
          /\ valbatch' = Append(valbatch,
                                [property_ids |-> property_ids, index |-> 0,
                                 results |-> <<>>, persisted |-> <<>>,
                                 created_by |-> Some(user.user_id)])
  /\ UNCHANGED <<users, depreciation_schedule, valuation, scenario, next_scenario_id>>
  /\ UNCHANGED <<property, cost_table>>
  /\ UNCHANGED ingestion_vars

SuccessItem(property_id, valuation_result) ==
  [property_id |-> property_id, status |-> "success",
   valuation |-> valuation_result, error |-> ""]

ErrorItem(property_id, error) ==
  [property_id |-> property_id, status |-> "error", valuation |-> <<>>,
   error |-> error]

\* One iteration of the loop of batch_valuate_properties.  persisted is
\* history: per item, the id of the valuation row the iteration inserted, or 0.
BatchValuationStep(b, overflow) ==
  LET rq == valbatch[b]
      property_id == rq.property_ids[rq.index + 1]
      prop == PropertyById(property_id)
      complete == /\ prop.v.imp_type.some /\ prop.v.quality.some
                  /\ prop.v.sqft.some /\ prop.v.year_built.some
                  /\ prop.v.region.some
      calc == calculate_valuation_with_db(cost_table, depreciation_schedule,
                                          property_id, prop.v.imp_type.v,
                                          prop.v.quality.v, prop.v.sqft.v,
                                          prop.v.year_built.v, prop.v.region.v,
                                          None, None, overflow)
      d == calc.v.calculation_details
      saves == /\ as_f64(d.rcn).some /\ as_f64(d.percent_good).some
               /\ as_f64(d.final_value).some
      saved == save_valuation(valuation, property_id, prop.v.imp_type.v,
                              prop.v.quality.v, prop.v.sqft.v,
                              prop.v.year_built.v, prop.v.region.v,
                              as_f64(d.rcn).v, as_f64(d.percent_good).v,
                              as_f64(d.final_value).v, calc.v, rq.created_by)
      Push(item, row) == [rq EXCEPT !.index = @ + 1,
                                    !.results = Append(@, item),
                                    !.persisted = Append(@, row)]
  IN /\ b \in 1..Len(valbatch)
     /\ rq.index < Len(rq.property_ids)
     /\ IF ~prop.some
        THEN /\ valbatch' = [valbatch EXCEPT ![b] =
                  Push(ErrorItem(property_id, "Property not found"), 0)]
             /\ reply' = NoReply
             /\ UNCHANGED valuation
        ELSE IF ~complete
        THEN /\ valbatch' = [valbatch EXCEPT ![b] =
                  Push(ErrorItem(property_id, "Missing required property data"), 0)]
             /\ reply' = NoReply
             /\ UNCHANGED valuation
        ELSE IF calc.kind = "panic"
        THEN /\ valbatch' = RemoveAt(valbatch, b)
             /\ reply' = Reply("batch_valuation", "panic",
                               [property_ids |-> rq.property_ids])
             /\ UNCHANGED valuation
        ELSE IF ~calc.ok
        THEN /\ valbatch' = [valbatch EXCEPT ![b] =
                  Push(ErrorItem(property_id, calc.kind), 0)]
             /\ reply' = NoReply
             /\ UNCHANGED valuation
        ELSE IF saves
        THEN /\ valuation' = saved
             /\ valbatch' = [valbatch EXCEPT ![b] =
                  Push(SuccessItem(property_id, calc.v), Len(saved))]
             /\ reply' = NoReply
        ELSE /\ valbatch' = [valbatch EXCEPT ![b] =
                  Push(SuccessItem(property_id, calc.v), 0)]
             /\ reply' = NoReply
             /\ UNCHANGED valuation
     /\ UNCHANGED <<users, depreciation_schedule, scenario, next_scenario_id, requests>>
     /\ UNCHANGED <<property, cost_table>>
     /\ UNCHANGED ingestion_vars

Count(seq, Test(_)) == Cardinality({i \in 1..Len(seq) : Test(seq[i])})

\* batch_valuation after the loop: the summary and the response.
BatchValuationRespond(b) ==
  LET rq == valbatch[b]
      IsSuccess(r) == r.status = "success"
      success_count == Count(rq.results, IsSuccess)
  IN /\ b \in 1..Len(valbatch)
     /\ rq.index = Len(rq.property_ids)
     /\ valbatch' = RemoveAt(valbatch, b)
     /\ reply' = Reply("batch_valuation", "ok",
                       [results |-> rq.results,
                        summary |-> [total_requested |-> Len(rq.results),
                                     successful |-> success_count,
                                     errors |-> Len(rq.results) - success_count],
                        property_ids |-> rq.property_ids,
                        persisted |-> rq.persisted])
     /\ UNCHANGED <<users, depreciation_schedule, valuation, scenario, next_scenario_id,
                    requests>>
     /\ UNCHANGED <<property, cost_table>>
     /\ UNCHANGED ingestion_vars

(***************************************************************************)
(* api/valuation.rs: get_valuation and get_valuation_history_endpoint.     *)
(* created_at is given by the store at the INSERT and orders the records   *)
(* as they were inserted, which is the order of the sequence valuation.    *)
(***************************************************************************)
\* SELECT * FROM valuation WHERE parcel_id = $1 ORDER BY created_at DESC LIMIT 1
LatestValuation(store, parcel_id) ==
  IF ValuationsOf(store, parcel_id) = {} THEN None
  ELSE Some(store[MaxOf(ValuationsOf(store, parcel_id))])

\* SELECT ... ORDER BY created_at DESC LIMIT $2, the limit 10 when not given.
DefaultHistoryLimit == 10

RECURSIVE ValuationsNewestFirst(_, _, _)
ValuationsNewestFirst(store, parcel_id, i) ==
  IF i = 0 THEN <<>>
  ELSE IF store[i].parcel_id = parcel_id
  THEN <<store[i]>> \o ValuationsNewestFirst(store, parcel_id, i - 1)
  ELSE ValuationsNewestFirst(store, parcel_id, i - 1)

get_valuation_history(store, parcel_id, limit) ==
  LET all == ValuationsNewestFirst(store, parcel_id, Len(store))
      n == IF limit.some THEN limit.v ELSE DefaultHistoryLimit
  IN SubSeq(all, 1, IF Len(all) < n THEN Len(all) ELSE Max0(n))

get_valuation_history_endpoint(user, parcel_id, limit) ==
  /\ IF ~Authenticated(user)
     THEN reply' = Reply("get_valuation_history", "Authentication", [parcel_id |-> parcel_id])
     ELSE reply' = Reply("get_valuation_history", "ok",
                         [parcel_id |-> parcel_id,
                          history |-> get_valuation_history(valuation, parcel_id, limit)])
  /\ UNCHANGED analysis_vars
  /\ UNCHANGED <<property, cost_table>>
  /\ UNCHANGED ingestion_vars

\* GET /api/valuation/:parcel_id: the latest record of the parcel, or, when
\* there is none, a calculation from the stored property that is returned and
\* not saved.
get_valuation(user, parcel_id, overflow) ==
  LET latest == LatestValuation(valuation, parcel_id)
      prop == PropertyById(parcel_id)
      complete == /\ prop.v.imp_type.some /\ prop.v.quality.some
                  /\ prop.v.sqft.some /\ prop.v.year_built.some
                  /\ prop.v.region.some
      calc == calculate_valuation_with_db(cost_table, depreciation_schedule,
                                          parcel_id, prop.v.imp_type.v,
                                          prop.v.quality.v, prop.v.sqft.v,
                                          prop.v.year_built.v, prop.v.region.v,
                                          None, None, overflow)
      Answer(kind, status, payload) ==
        Reply("get_valuation", kind,
              [parcel_id |-> parcel_id, status |-> status, payload |-> payload])
  IN /\ IF ~Authenticated(user)
        THEN reply' = Answer("Authentication", "none", None)
        ELSE IF latest.some
        THEN reply' = Answer("ok", "found", latest)
        ELSE IF ~prop.some
        THEN reply' = Answer("NotFound", "none", None)
        ELSE IF ~complete
        THEN reply' = Answer("Validation", "none", None)
        ELSE IF ~calc.ok
        THEN reply' = Answer(calc.kind, "none", None)
        ELSE reply' = Answer("ok", "calculated", Some(calc.v))
     /\ UNCHANGED analysis_vars
     /\ UNCHANGED <<property, cost_table>>
     /\ UNCHANGED ingestion_vars

(***************************************************************************)
(* services/scenario.rs and api/scenario.rs.  The fields a division        *)
(* derives (summary.cost_per_sqft, value_to_rcn_ratio, avg,                *)
(* spread_percentage) and the matrix's value_range are not represented.    *)
(***************************************************************************)
MatrixCap == 100
CompareCap == 10

\* Value indexing: a key the value does not have gives null.
JsonGet(v, k) == IF k \in DOMAIN v THEN v[k] ELSE JsonNull

run_scenario_calculation(base_cost, sqft, market_factor, location_factor, percent_good) ==
  LET rcn == calculate_rcn(base_cost, sqft, market_factor, location_factor)
      final_value == apply_depreciation(rcn, percent_good)
  IN [inputs |-> [base_cost_per_sqft |-> JsonNumber(base_cost),
                  sqft |-> JsonNumber(sqft),
                  market_factor |-> JsonNumber(market_factor),
                  location_factor |-> JsonNumber(location_factor),
                  percent_good |-> JsonNumber(percent_good)],
      calculations |-> [rcn |-> JsonNumber(rcn),
                        depreciation_applied |-> JsonNumber(FSub(rcn, final_value)),
                        final_value |-> JsonNumber(final_value)],
      summary |-> [total_value |-> JsonNumber(final_value)]]

MatrixEntryLocationMajor(base_cost, sqft, market_factors, location_factors, percent_goods, scenario_id) ==
  LET nm == Len(market_factors)
      np == Len(percent_goods)
      location == location_factors[((scenario_id - 1) \div (nm * np)) + 1]
      market == market_factors[(((scenario_id - 1) \div np) % nm) + 1]
      percent_good == percent_goods[((scenario_id - 1) % np) + 1]
  IN [scenario_id |-> scenario_id,
      parameters |-> [market_factor |-> JsonNumber(market),
                      location_factor |-> JsonNumber(location),
                      percent_good |-> JsonNumber(percent_good)],
      result |-> run_scenario_calculation(base_cost, sqft, market, location,
                                          percent_good)]

\* The three nested loops: combination number scenario_id, counted from 1, has
\* the market factor, location factor and percent good at these positions.
MatrixEntry(base_cost, sqft, market_factors, location_factors, percent_goods, scenario_id) ==
  LET nl == Len(location_factors)
      np == Len(percent_goods)
      market == market_factors[((scenario_id - 1) \div (nl * np)) + 1]
      location == location_factors[(((scenario_id - 1) \div np) % nl) + 1]
      percent_good == percent_goods[((scenario_id - 1) % np) + 1]
  IN [scenario_id |-> scenario_id,
      parameters |-> [market_factor |-> JsonNumber(market),
                      location_factor |-> JsonNumber(location),
                      percent_good |-> JsonNumber(percent_good)],
      result |-> run_scenario_calculation(base_cost, sqft, market, location,
                                          percent_good)]

run_scenario_matrix(base_cost, sqft, market_factors, location_factors, percent_goods) ==
  LET n == Len(market_factors) * Len(location_factors) * Len(percent_goods)
      scenarios == [i \in 1..n |->
                      MatrixEntry(base_cost, sqft, market_factors,
                                  location_factors, percent_goods, i)]
  IN [base_inputs |-> [base_cost_per_sqft |-> JsonNumber(base_cost),
                       sqft |-> JsonNumber(sqft)],
      scenarios |-> scenarios,
      summary |-> [total_scenarios |-> Len(scenarios)]]

\* INSERT INTO scenario ... RETURNING *
ScenarioRow(id, name, parameters, results, created_by) ==
  [id |-> id, name |-> name, parameters |-> parameters, results |-> results,
   created_by |-> created_by]

ScenarioRequest(name, base_cost, sqft, market_factor, location_factor, percent_good) ==
  [name |-> name, base_cost |-> base_cost, sqft |-> sqft,
   market_factor |-> market_factor, location_factor |-> location_factor,
   percent_good |-> percent_good]

create_scenario(user, req, cap) ==
  LET result == run_scenario_calculation(req.base_cost, req.sqft,
                                         req.market_factor, req.location_factor,
                                         req.percent_good)
      parameters == [base_cost |-> JsonNumber(req.base_cost),
                     sqft |-> JsonNumber(req.sqft),
                     market_factor |-> JsonNumber(req.market_factor),
                     location_factor |-> JsonNumber(req.location_factor),
                     percent_good |-> JsonNumber(req.percent_good)]
      row == ScenarioRow(next_scenario_id, req.name, parameters, Some(result),
                         Some(user.user_id))
  IN /\ requests < cap
     /\ requests' = requests + 1
     /\ IF AnalystOrAbove(user) # "ok"
        THEN /\ reply' = Reply("create_scenario", AnalystOrAbove(user),
                               [request |-> req])
             /\ UNCHANGED <<scenario, next_scenario_id>>
        ELSE /\ scenario' = scenario \cup {row}
             /\ next_scenario_id' = next_scenario_id + 1
             /\ reply' = Reply("create_scenario", "ok",
                               [scenario |-> row, calculation |-> result,
                                request |-> req])
     /\ UNCHANGED <<users, depreciation_schedule, valuation, valbatch>>
     /\ UNCHANGED <<property, cost_table>>
     /\ UNCHANGED ingestion_vars

MatrixScenarioRequest(name, base_cost, sqft, market_factors, location_factors, percent_goods) ==
  [name |-> name, base_cost |-> base_cost, sqft |-> sqft,
   market_factors |-> market_factors, location_factors |-> location_factors,
   percent_goods |-> percent_goods]

JsonNumbers(xs) == [i \in 1..Len(xs) |-> JsonNumber(xs[i])]

create_matrix_scenario(user, req, cap) ==
  LET total_scenarios == Len(req.market_factors) * Len(req.location_factors)
                           * Len(req.percent_goods)
      result == run_scenario_matrix(req.base_cost, req.sqft, req.market_factors,
                                    req.location_factors, req.percent_goods)
      parameters == [base_cost |-> JsonNumber(req.base_cost),
                     sqft |-> JsonNumber(req.sqft),
                     market_factors |-> JsonNumbers(req.market_factors),
                     location_factors |-> JsonNumbers(req.location_factors),
                     percent_goods |-> JsonNumbers(req.percent_goods),
                     scenario_type |-> "matrix"]
      row == ScenarioRow(next_scenario_id, req.name, parameters, Some(result),
                         Some(user.user_id))
  IN /\ requests < cap
     /\ requests' = requests + 1
     /\ IF AnalystOrAbove(user) # "ok"
        THEN /\ reply' = Reply("create_matrix_scenario", AnalystOrAbove(user),
                               [request |-> req])
             /\ UNCHANGED <<scenario, next_scenario_id>>
        ELSE IF total_scenarios > MatrixCap
        THEN /\ reply' = Reply("create_matrix_scenario", "Validation",
                               [request |-> req])
             /\ UNCHANGED <<scenario, next_scenario_id>>
        ELSE /\ scenario' = scenario \cup {row}
             /\ next_scenario_id' = next_scenario_id + 1
             /\ reply' = Reply("create_matrix_scenario", "ok",
                               [scenario |-> row, matrix_result |-> result,
                                request |-> req])
     /\ UNCHANGED <<users, depreciation_schedule, valuation, valbatch>>
     /\ UNCHANGED <<property, cost_table>>
     /\ UNCHANGED ingestion_vars

\* SELECT * FROM scenario WHERE id = $1
get_scenario(scenario_id) ==
  IF \E s \in scenario : s.id = scenario_id
  THEN Some(CHOOSE s \in scenario : s.id = scenario_id)
  ELSE None

\* get_scenario_endpoint: the credential, then the row by id.
get_scenario_endpoint(user, id) ==
  /\ reply' =
       IF ~Authenticated(user)
       THEN Reply("get_scenario", "Authentication", [scenario_id |-> id])
       ELSE IF ~get_scenario(id).some
       THEN Reply("get_scenario", "NotFound", [scenario_id |-> id])
       ELSE Reply("get_scenario", "ok",
                  [scenario_id |-> id, scenario |-> get_scenario(id).v])
  /\ UNCHANGED analysis_vars
  /\ UNCHANGED <<property, cost_table>>
  /\ UNCHANGED ingestion_vars

\* A delete that skips the ownership check.
delete_scenario_AnyPrincipal(user, scenario_id) ==
  IF ~get_scenario(scenario_id).some THEN "NotFound" ELSE "ok"

\* delete_scenario: the row by id, then the ownership check, which compares
\* the role with "admin" as it is spelled in the credential.
delete_scenario(user, scenario_id) ==
  IF ~get_scenario(scenario_id).some THEN "NotFound"
  ELSE IF /\ get_scenario(scenario_id).v.created_by # Some(user.user_id)
          /\ user.role # R_admin
  THEN "Authorization"
  ELSE "ok"

\* delete_scenario_endpoint: the credential, then delete_scenario and its
\* DELETE FROM scenario WHERE id = $1.
delete_scenario_endpoint(user, id) ==
  LET kind == IF ~Authenticated(user) THEN "Authentication"
              ELSE delete_scenario(user, id)
  IN /\ reply' = Reply("delete_scenario", kind, [scenario_id |-> id])
     /\ scenario' = IF kind = "ok" THEN {s \in scenario : s.id # id} ELSE scenario
     /\ UNCHANGED <<users, depreciation_schedule, valuation, next_scenario_id,
                    valbatch, requests>>
     /\ UNCHANGED <<property, cost_table>>
     /\ UNCHANGED ingestion_vars

\* The elements of a sequence that pass a test, in order.
Filter(seq, Test(_)) ==
  LET S == {i \in 1..Len(seq) : Test(seq[i])}
      Nth(k) == CHOOSE i \in S : Cardinality({j \in S : j < i}) = k - 1
  IN [k \in 1..Cardinality(S) |-> seq[Nth(k)]]

\* values.iter().fold(f64::INFINITY, min) and fold(f64::NEG_INFINITY, max) on a
\* non-empty list of finite values.
FoldMin(values) ==
  values[CHOOSE i \in 1..Len(values) :
           \A j \in 1..Len(values) : ~FLess(values[j], values[i])]
FoldMax(values) ==
  values[CHOOSE i \in 1..Len(values) :
           \A j \in 1..Len(values) : ~FLess(values[i], values[j])]

\* values.iter().position(|&v| v == x), counted from 0
Position(values, x) ==
  (CHOOSE i \in 1..Len(values) :
     /\ values[i] = x
     /\ \A j \in 1..(i - 1) : values[j] # x) - 1

\* compare_scenarios reads the final value and the RCN of each payload under
\* its "calculations" member.
compare_scenarios(scenarios) ==
  LET final_value(i) ==
        JsonGet(JsonGet(scenarios[i], "calculations"), "final_value")
      rcn(i) == JsonGet(JsonGet(scenarios[i], "calculations"), "rcn")
      Kept(i) == as_f64(final_value(i)).some /\ as_f64(rcn(i)).some
      kept == Filter([i \in 1..Len(scenarios) |-> i], Kept)
      values == [k \in 1..Len(kept) |-> final_value(kept[k])]
      comparisons == [k \in 1..Len(kept) |->
                        [scenario_index |-> kept[k] - 1,
                         final_value |-> final_value(kept[k]),
                         rcn |-> rcn(kept[k])]]
      min_value == FoldMin(values)
      max_value == FoldMax(values)
  IN [scenario_count |-> Len(scenarios),
      comparisons |-> comparisons,
      analysis |->
        IF Len(values) = 0 THEN None
        ELSE Some([value_range |-> [min |-> min_value, max |-> max_value,
                                    spread |-> FSub(max_value, min_value)],
                   best_scenario |-> Position(values, max_value),
                   worst_scenario |-> Position(values, min_value)])]

\* compare_scenarios applied to the result payloads of stored scenarios, as
\* run_scenario_calculation and run_scenario_matrix produced them.
compare_scenarios_of_payloads(scenario_ids) ==
  /\ \A i \in 1..Len(scenario_ids) :
       /\ get_scenario(scenario_ids[i]).some
       /\ get_scenario(scenario_ids[i]).v.results.some
  /\ reply' = Reply("compare_scenarios_of_payloads", "ok",
                    [scenario_ids |-> scenario_ids,
                     comparison |->
                       compare_scenarios(
                         [i \in 1..Len(scenario_ids) |->
                            get_scenario(scenario_ids[i]).v.results.v])])
  /\ UNCHANGED analysis_vars
  /\ UNCHANGED <<property, cost_table>>
  /\ UNCHANGED ingestion_vars

\* compare_scenarios_endpoint: the cap, then per id the lookup and the
\* ownership check, then the comparison.
compare_scenarios_endpoint(user, scenario_ids) ==
  LET Refused(i) ==
        LET s == get_scenario(scenario_ids[i])
        IN \/ ~s.some
           \/ s.v.created_by # Some(user.user_id) /\ user.role # R_admin
      refused == {i \in 1..Len(scenario_ids) : Refused(i)}
      first == CHOOSE i \in refused : \A j \in refused : i <= j
      HasResults(id) == get_scenario(id).v.results.some
      with_results == Filter(scenario_ids, HasResults)
      scenario_results ==
        [k \in 1..Len(with_results) |->
           [scenario_id |-> with_results[k],
            name |-> get_scenario(with_results[k]).v.name,
            results |-> get_scenario(with_results[k]).v.results.v]]
      calculations ==
        [k \in 1..Len(scenario_results) |->
           JsonGet(scenario_results[k].results, "calculations")]
      ids == [scenario_ids |-> scenario_ids]
  IN /\ reply' =
          IF ~Authenticated(user)
          THEN Reply("compare_scenarios", "Authentication", ids)
          ELSE IF Len(scenario_ids) > CompareCap
          THEN Reply("compare_scenarios", "Validation", ids)
          ELSE IF refused # {}
          THEN Reply("compare_scenarios",
                     IF get_scenario(scenario_ids[first]).some
                     THEN "Authorization" ELSE "NotFound", ids)
          ELSE IF Len(scenario_results) = 0
          THEN Reply("compare_scenarios", "Validation", ids)
          ELSE Reply("compare_scenarios", "ok",
                     [scenarios |-> scenario_results,
                      comparison |-> compare_scenarios(calculations),
                      scenario_ids |-> scenario_ids])
     /\ UNCHANGED analysis_vars
     /\ UNCHANGED <<property, cost_table>>
     /\ UNCHANGED ingestion_vars

(***************************************************************************)
(* Specifications.                                                         *)
(***************************************************************************)
Init ==
  /\ batch_upload = <<>>
  /\ worker = <<>>
  /\ property = <<>>
  /\ cost_table = {}
  /\ next_cost_id = 1
  /\ bulk = <<>>
  /\ reply = NoReply
  /\ count_writes = <<>>
  /\ upserts = <<>>
  /\ last_applied = <<>>
  /\ api_writes = 0
  /\ depreciation_schedule = {}
  /\ valuation = <<>>
  /\ scenario = {}
  /\ next_scenario_id = 1
  /\ valbatch = <<>>
  /\ requests = 0
  /\ users = SeedUsers

\* Concurrent ingestion.  No file of ConcurrentFiles has CheckpointEvery rows,
\* so no task reaches a checkpoint write.
ConcurrentFiles == {"props", "unknown", "excel"}

Next ==
  \/ \E h \in ConcurrentFiles : UploadInsert(AssessorUser, h, MaxJobs)
  \/ \E j \in Jobs :
       \/ UploadSpawn(j)
       \/ WorkerStart(j)
       \/ ProcessRow(j)
       \/ FinalUpdate(j)
       \/ StatusUpdate(j)
       \/ GetBatchStatus(AssessorUser, j)

Spec == Init /\ [][Next]_vars

\* Ingestion of every kind of file, one job after the other.
Idle == \A j \in Jobs : worker[j].pc = "done"

NextSeq ==
  \/ \E h \in ShortFiles \cup LongFiles :
       Idle /\ UploadInsert(AssessorUser, h, MaxSeqJobs)
  \/ \E h \in RejectedFiles : UploadReject(AssessorUser, h)
  \/ UploadReject(ViewerUser, "props")
  \/ \E j \in Jobs :
       \/ UploadSpawn(j)
       \/ WorkerStart(j)
       \/ ProcessRow(j)
       \/ Checkpoint(j)
       \/ FinalUpdate(j)
       \/ StatusUpdate(j)

SpecSeq == Init /\ [][NextSeq]_vars

\* Every write path of cost_table: CSV ingestion, single create, bulk import,
\* delete.
NextCost ==
  \/ Idle /\ UploadInsert(AssessorUser, "cost", MaxSeqJobs)
  \/ \E j \in Jobs :
       \/ UploadSpawn(j)
       \/ WorkerStart(j)
       \/ ProcessRow(j)
       \/ FinalUpdate(j)
       \/ StatusUpdate(j)
  \/ \E req \in CreateRequests : create_cost_table(AdminUser, req)
  \/ \E items \in BulkRequests : BulkStart(AssessorUser, items)
  \/ \E id \in 1..(next_cost_id - 1) : delete_cost_table(AdminUser, id)
  \/ delete_cost_table(AssessorUser, 1)
  \/ \E b \in 1..Len(bulk) : BulkStep(b)

SpecCost == Init /\ [][NextCost]_vars

\* The stores after the two seed files were ingested.  The job records of the
\* two uploads are left out: no valuation or scenario operation reads them.
InitSeeded ==
  /\ batch_upload = <<>>
  /\ worker = <<>>
  /\ property = Seeded.property
  /\ cost_table = Seeded.cost_table
  /\ next_cost_id = Seeded.next_cost_id
  /\ bulk = <<>>
  /\ reply = NoReply
  /\ count_writes = <<>>
  /\ upserts = <<>>
  /\ last_applied = <<>>
  /\ api_writes = 0
  /\ depreciation_schedule = SeedDepreciation
  /\ valuation = <<>>
  /\ scenario = {}
  /\ next_scenario_id = 1
  /\ valbatch = <<>>
  /\ requests = 0
  /\ users = SeedUsers

\* Batches over the stored properties; property 9 is not stored.
BatchIdLists == {<<1, 4, 2>>, <<9, 6, 3>>, <<7, 5>>, <<8, 1>>}

\* Single scenarios with final values 100000, 150000 and 120000, and one with
\* fractional factors.
ScenarioRequests ==
  {ScenarioRequest("a", Fin(100, 0), Fin(1000, 0), Fin(1, 0), Fin(1, 0), Fin(1, 0)),
   ScenarioRequest("b", Fin(150, 0), Fin(1000, 0), Fin(1, 0), Fin(1, 0), Fin(1, 0)),
   ScenarioRequest("c", Fin(120, 0), Fin(1000, 0), Fin(1, 0), Fin(1, 0), Fin(1, 0)),
   ScenarioRequest("d", Fin(3, 0), Fin(10, 0), Fin(105, 2), Fin(102, 2), Fin(80, 2))}

\* Valuation requests, batch valuations in flight together, single scenarios.
NextVal ==
  \/ \E req \in ValuationRequests, o \in OverflowOutcomes :
       create_valuation(AnalystUser, req, o, MaxRequests)
  \/ \E ids \in BatchIdLists : BatchValuationStart(AssessorUser, ids, MaxRequests)
  \/ \E b \in 1..Len(valbatch), o \in OverflowOutcomes : BatchValuationStep(b, o)
  \/ \E b \in 1..Len(valbatch) : BatchValuationRespond(b)
  \/ \E req \in ScenarioRequests : create_scenario(AnalystUser, req, MaxRequests)

SpecVal == InitSeeded /\ [][NextVal]_vars

\* The size caps, one request after the other.  A batch of n ids names the
\* stored properties 1 and 2 first and last and the missing property 9 in
\* between; a comparison of n ids names scenario 1, and with fill the missing
\* scenario 7 last.
MaxCapRequests == 1

IdsOfLen(n) == [i \in 1..n |-> IF i = 1 THEN 1 ELSE IF i = n THEN 2 ELSE 9]
LongIdLists == {IdsOfLen(BatchValuationCap), IdsOfLen(BatchValuationCap + 1)}

ScenarioIdsOfLen(n, last) == [i \in 1..n |-> IF i = n THEN last ELSE 1]
CompareIdLists ==
  {ScenarioIdsOfLen(n, last) : n \in {CompareCap, CompareCap + 1}, last \in {1, 7}}

NoBatchInFlight == valbatch = <<>>

NextCaps ==
  \/ \E ids \in LongIdLists :
       NoBatchInFlight /\ BatchValuationStart(AssessorUser, ids, MaxCapRequests)
  \/ \E b \in 1..Len(valbatch), o \in OverflowOutcomes : BatchValuationStep(b, o)
  \/ \E b \in 1..Len(valbatch) : BatchValuationRespond(b)
  \/ \E req \in ScenarioRequests :
       NoBatchInFlight /\ create_scenario(AnalystUser, req, MaxCapRequests)
  \/ \E user \in {AnalystUser, ViewerUser}, ids \in CompareIdLists :
       NoBatchInFlight /\ compare_scenarios_endpoint(user, ids)

SpecCaps == InitSeeded /\ [][NextCaps]_vars

\* Matrix scenarios.  The factor lists of a request hold distinct values:
\* market factors 1.01, 1.02, ..., location factors 0.91, 0.92, ..., percent
\* goods 0.50, 0.51, ...
MaxMatrixRequests == 2

MatrixOfSize(nm, nl, np) ==
  MatrixScenarioRequest("m", Fin(2, 0), Fin(10, 0),
                        [i \in 1..nm |-> Fin(100 + i, 2)],
                        [i \in 1..nl |-> Fin(90 + i, 2)],
                        [i \in 1..np |-> Fin(49 + i, 2)])

\* 125, 80 and 100 combinations, 101 in either outer list, none, and small
\* ones.
MatrixSizes ==
  {<<5, 5, 5>>, <<4, 5, 4>>, <<5, 5, 4>>, <<101, 1, 1>>, <<1, 1, 101>>,
   <<0, 2, 2>>, <<1, 1, 1>>, <<2, 2, 1>>, <<2, 3, 2>>, <<10, 10, 1>>,
   <<1, 100, 1>>, <<3, 1, 2>>}

MatrixRequests == {MatrixOfSize(z[1], z[2], z[3]) : z \in MatrixSizes}

NextMatrix ==
  \/ \E req \in MatrixRequests :
       create_matrix_scenario(AnalystUser, req, MaxMatrixRequests)
  \/ create_matrix_scenario(ViewerUser, MatrixOfSize(1, 1, 1), MaxMatrixRequests)

SpecMatrix == Init /\ [][NextMatrix]_vars

\* Comparisons of up to three stored scenarios: the single scenarios of final
\* value 100000, 150000 and 120000 and a one-combination matrix scenario.
MaxCompareRequests == 3

ComparableRequests == {r \in ScenarioRequests : r.name \in {"a", "b", "c"}}

ComparedIdLists ==
  {<<i>> : i \in 1..3} \cup {<<i, j>> : i, j \in 1..3}
    \cup {<<1, 2, 3>>, <<3, 2, 1>>, <<2, 3, 1>>}

NextCompare ==
  \/ \E req \in ComparableRequests :
       create_scenario(AnalystUser, req, MaxCompareRequests)
  \/ create_matrix_scenario(AnalystUser, MatrixOfSize(1, 1, 1), MaxCompareRequests)
  \/ \E ids \in ComparedIdLists : compare_scenarios_endpoint(AnalystUser, ids)
  \/ \E ids \in ComparedIdLists : compare_scenarios_of_payloads(ids)

SpecCompare == Init /\ [][NextCompare]_vars

\* Guarded requests of the four roles: a scenario (Analyst or above), a
\* cost-table entry (Assessor or above), a registration and a cost-table
\* deletion (Admin only); and can_access on every pair of roles.
MaxRoleRequests == 1

RoleScenarioRequests == {r \in ScenarioRequests : r.name = "a"}

RoleRegisterRequests == {CreateUserRequest(<<"e","v","e">>, <<"p","5">>, R_analyst)}

RoleCostRequests ==
  {CostRequest(<<"N">>, 11000, <<"2","0","2","4","-","0","1","-","1","5">>)}

NextRoles ==
  \/ \E user \in Principals, req \in RoleScenarioRequests :
       create_scenario(user, req, MaxRoleRequests)
  \/ \E user \in Principals, req \in RoleRegisterRequests :
       register(user, req, MaxRoleRequests)
  \/ \E user \in Principals, req \in RoleCostRequests : create_cost_table(user, req)
  \/ \E user \in Principals : delete_cost_table(user, 1)
  \/ \E user_role, required_role \in Roles :
       check_can_access(user_role, required_role)

SpecRoles == Init /\ [][NextRoles]_vars

\* Guarded requests under every credential: a valuation (Analyst or above), a
\* cost-table entry (Assessor or above), a registration and a cost-table
\* deletion (Admin only), the deletion with a path segment that is an id and
\* with one that is not.
MaxAuthRequests == 2

Users == Principals \cup BadCredentials

AuthValuationRequests == {ValuationRequest(1, RES, QA, Fin(10, 0), 2019, RN)}

RegisterRequests ==
  {CreateUserRequest(<<"e","v","e">>, <<"p","5">>, R_analyst),
   CreateUserRequest(<<"e","v","e">>, <<"p","5">>, <<"A","d","m","i","n">>)}

AuthCostRequests == RoleCostRequests

PathSegments == {<<"1">>, <<"x">>}

NextAuth ==
  \/ \E user \in Users, req \in AuthValuationRequests :
       create_valuation(user, req, "wrap", MaxAuthRequests)
  \/ \E user \in Users, req \in RegisterRequests :
       register(user, req, MaxAuthRequests)
  \/ \E user \in Users, req \in AuthCostRequests : create_cost_table(user, req)
  \/ \E user \in Users, segment \in PathSegments :
       delete_cost_table_route(user, segment)

SpecAuth == InitSeeded /\ [][NextAuth]_vars

\* Scenarios created by an Analyst and by an Assessor, then read, compared and
\* deleted under every credential.
MaxScenarioRequests == 2

ScenarioIds == 1..3

ScenarioUsers == Principals \cup {Credential(0, <<>>, "absent")}

ScenarioIdLists == {<<i>> : i \in ScenarioIds} \cup {<<1, 2>>, <<2, 1>>}

NextScenario ==
  \/ \E user \in {AnalystUser, AssessorUser}, req \in RoleScenarioRequests :
       create_scenario(user, req, MaxScenarioRequests)
  \/ create_matrix_scenario(AnalystUser, MatrixOfSize(1, 1, 1), MaxScenarioRequests)
  \/ \E user \in ScenarioUsers, id \in ScenarioIds : get_scenario_endpoint(user, id)
  \/ \E user \in ScenarioUsers, ids \in ScenarioIdLists :
       compare_scenarios_endpoint(user, ids)
  \/ \E user \in ScenarioUsers, id \in ScenarioIds :
       delete_scenario_endpoint(user, id)

SpecScenario == Init /\ [][NextScenario]_vars

\* Detail reads under every credential: of a scenario created by an Analyst
\* and of the job of an upload made by an Assessor.
MaxDetailRequests == 1
MaxDetailJobs == 1

NextDetail ==
  \/ \E req \in RoleScenarioRequests :
       create_scenario(AnalystUser, req, MaxDetailRequests)
  \/ \E user \in ScenarioUsers, id \in 1..2 : get_scenario_endpoint(user, id)
  \/ \E user \in ScenarioUsers, ids \in {<<1>>, <<2>>} :
       compare_scenarios_endpoint(user, ids)
  \/ UploadInsert(AssessorUser, "excel", MaxDetailJobs)
  \/ \E j \in Jobs :
       \/ UploadSpawn(j)
       \/ WorkerStart(j)
       \/ ProcessRow(j)
       \/ FinalUpdate(j)
       \/ StatusUpdate(j)
  \/ \E user \in Principals, id \in 1..2 : GetBatchStatus(user, id)

SpecDetail == Init /\ [][NextDetail]_vars

\* Concurrent ingestion of a property file in which a task may stop at any
\* point and the process may restart.
MaxCrashJobs == 2

CrashFiles == {"props"}

NextCrash ==
  \/ \E h \in CrashFiles : UploadInsert(AssessorUser, h, MaxCrashJobs)
  \/ \E j \in Jobs :
       \/ UploadSpawn(j)
       \/ WorkerStart(j)
       \/ ProcessRow(j)
       \/ FinalUpdate(j)
       \/ StatusUpdate(j)
       \/ GetBatchStatus(AssessorUser, j)
  \/ \E j \in Jobs : WorkerStops(j)
  \/ Restart

SpecCrash == Init /\ [][NextCrash]_vars

\* Ingestion of cost-table files with and without an effective date, one job
\* after the other.
MaxDateJobs == 3

DateFiles == {"dated", "cost", "noquality"}

NextDates ==
  \/ \E h \in DateFiles : Idle /\ UploadInsert(AssessorUser, h, MaxDateJobs)
  \/ \E j \in Jobs :
       \/ UploadSpawn(j)
       \/ WorkerStart(j)
       \/ ProcessRow(j)
       \/ FinalUpdate(j)
       \/ StatusUpdate(j)

SpecDates == Init /\ [][NextDates]_vars

\* Concurrent ingestion with status and history reads in between.  No file of
\* FrameFiles has CheckpointEvery rows.
MaxFrameJobs == 2

FrameFiles == {"props", "excel"}

NextFrame ==
  \/ \E h \in FrameFiles : UploadInsert(AssessorUser, h, MaxFrameJobs)
  \/ \E j \in Jobs :
       \/ UploadSpawn(j)
       \/ WorkerStart(j)
       \/ ProcessRow(j)
       \/ FinalUpdate(j)
       \/ StatusUpdate(j)
  \/ \E j \in Jobs : GetBatchStatus(AssessorUser, j)
  \/ GetBatchHistory(AssessorUser)

SpecFrame == Init /\ [][NextFrame]_vars

(***************************************************************************)
(* Cost factor lookups between writes of the cost table: rows are created  *)
(* and deleted through the API while any caller looks keys up.             *)
(***************************************************************************)
LookupQueries ==
  {CostTableQuery(Some(RES), Some(<<"A">>), Some(2026), Some(<<"N">>)),
   CostTableQuery(Some(RES), Some(<<"A","v","g">>), Some(2024), Some(<<"N">>)),
   CostTableQuery(Some(RES), Some(<<"A">>), Some(2025), Some(<<"N">>)),
   CostTableQuery(Some(RES), Some(<<"A">>), Some(2026), None),
   CostTableQuery(Some(RES), None, Some(2025), Some(<<"N">>))}

LookupUsers == {ViewerUser, AdminUser, Credential(0, <<>>, "absent")}

LookupDeletedIds == 1..4

NextLookup ==
  \/ \E req \in CreateRequests : create_cost_table(AssessorUser, req)
  \/ \E id \in LookupDeletedIds : delete_cost_table(AdminUser, id)
  \/ \E user \in LookupUsers, query \in LookupQueries : lookup_cost_factor(user, query)

SpecLookup == InitSeeded /\ [][NextLookup]_vars

(***************************************************************************)
(* Valuation records: records are saved by create_valuation and by the     *)
(* batch while any caller reads the parcels' valuations and histories.     *)
(***************************************************************************)
MaxRecordRequests == 2

RecordRequests ==
  {ValuationRequest(1, RES, QA, Fin(10, 0), 2019, RN),
   ValuationRequest(1, RES, QA, Fin(10, 0), 2016, RN),
   ValuationRequest(3, RES, QA, Fin(20, 0), 2026, RN)}

RecordBatches == {<<1, 2>>}

\* Parcels with and without records: stored properties, one without a year
\* built (7), one whose year built overflows the age (8), and a parcel that
\* is not stored (9).
ReadParcels == {1, 3, 7, 8, 9}

HistoryParcels == {1, 9}

ReadUsers == {ViewerUser, Credential(0, <<>>, "absent")}

HistoryLimits == {None, Some(1)}

NextRecords ==
  \/ \E req \in RecordRequests : create_valuation(AnalystUser, req, "wrap", MaxRecordRequests)
  \/ \E ids \in RecordBatches : BatchValuationStart(AssessorUser, ids, MaxRecordRequests)
  \/ \E b \in 1..Len(valbatch) : BatchValuationStep(b, "wrap")
  \/ \E b \in 1..Len(valbatch) : BatchValuationRespond(b)
  \/ \E user \in ReadUsers, id \in ReadParcels, o \in OverflowOutcomes : get_valuation(user, id, o)
  \/ \E user \in ReadUsers, id \in HistoryParcels, limit \in HistoryLimits : get_valuation_history_endpoint(user, id, limit)

SpecRecords == InitSeeded /\ [][NextRecords]_vars

(***************************************************************************)
(* Ingestion under fair scheduling: the handler that inserted a job goes   *)
(* on to spawn its task, and the runtime keeps polling a task that can     *)
(* take a step.  No statement of a task fails.                             *)
(***************************************************************************)
MaxFairJobs == 2

FairFiles == {"props", "excel", "badutf8"}

FairJobIds == 1..MaxFairJobs

\* The steps of job j's upload handler after the INSERT and of its task,
\* the row loop apart.
TaskStep(j) ==
  \/ UploadSpawn(j)
  \/ WorkerStart(j)
  \/ FinalUpdate(j)
  \/ StatusUpdate(j)

NextFair ==
  \/ \E h \in FairFiles : UploadInsert(AssessorUser, h, MaxFairJobs)
  \/ \E j \in Jobs : TaskStep(j) \/ ProcessRow(j)

\* ProcessRow(j) is enabled exactly when the task is in its row loop, and it
\* is the one step that advances the task's row number.
RowPending(j) == j \in Jobs /\ worker[j].pc = "rows"
RowTaken(j) == RowPending(j) /\ worker'[j].row_num = worker[j].row_num + 1

\* Weak fairness of each job's steps; that of ProcessRow(j) is written out
\* with its enabling condition and its effect on the row number.
TaskFairness(j) ==
  /\ WF_vars(j \in Jobs /\ TaskStep(j))
  /\ []<>(~RowPending(j)) \/ []<><<RowTaken(j)>>_vars

SpecFair ==
  /\ Init
  /\ [][NextFair]_vars
  /\ \A j \in FairJobIds : TaskFairness(j)

(***************************************************************************)
(* Role recognition.  register stores a role in lower case only, and it    *)
(* is open to Admins alone: the first Admin account of an installation is  *)
(* a row of "user" written directly to the store, with the role as typed.  *)
(* login copies the role of the row into the token's claims.               *)
(***************************************************************************)
MaxRecognitionRequests == 2

R_Admin == <<"A","d","m","i","n">>

\* The token of an account whose role is stored as "Admin".
ProvisionedAdmin == Credential(5, R_Admin, "valid")

RecognitionUsers == {AdminUser, ProvisionedAdmin, AnalystUser, ViewerUser}

RecognitionIdLists == {<<1>>, <<2>>, <<1, 2>>, <<3>>}

InitProvisioned ==
  /\ batch_upload = <<>>
  /\ worker = <<>>
  /\ property = Seeded.property
  /\ cost_table = Seeded.cost_table
  /\ next_cost_id = Seeded.next_cost_id
  /\ bulk = <<>>
  /\ reply = NoReply
  /\ count_writes = <<>>
  /\ upserts = <<>>
  /\ last_applied = <<>>
  /\ api_writes = 0
  /\ depreciation_schedule = SeedDepreciation
  /\ valuation = <<>>
  /\ scenario = {}
  /\ next_scenario_id = 1
  /\ valbatch = <<>>
  /\ requests = 0
  /\ users = Append(SeedUsers, UserRow(5, <<"e","d">>, <<"p","5">>, R_Admin))

NextRecognition ==
  \/ \E user \in {AnalystUser, ProvisionedAdmin}, req \in RoleScenarioRequests :
       create_scenario(user, req, MaxRecognitionRequests)
  \/ \E user \in {ProvisionedAdmin, ViewerUser}, req \in RoleRegisterRequests :
       register(user, req, MaxRecognitionRequests)
  \/ \E user \in RecognitionUsers, id \in ScenarioIds : delete_scenario_endpoint(user, id)
  \/ \E user \in RecognitionUsers, ids \in RecognitionIdLists :
       compare_scenarios_endpoint(user, ids)

SpecRecognition == InitProvisioned /\ [][NextRecognition]_vars

(***************************************************************************)
(* Properties of batch ingestion.                                          *)
(***************************************************************************)
\* Whether the i-th data row of file h fails on its own: the row does not
\* parse, or process_csv_record rejects it.
RowFails(h, i) ==
  LET f == File(h)
      rec == f.records[i]
  IN \/ ~rec.ok
     \/ ~process_csv_record(<<>>, {}, 1, f.headers, rec.cells).ok

\* The failing rows of every file, by handle.
FailingRowsOf ==
  [h \in ShortFiles \cup LongFiles \cup RejectedFiles |->
     {i \in 1..Len(File(h).records) : RowFails(h, i)}]

FailingRows(h) == FailingRowsOf[h]

RECURSIVE Ascending(_)
Ascending(S) ==
  IF S = {} THEN <<>>
  ELSE LET m == CHOOSE i \in S : \A k \in S : i <= k
       IN <<m>> \o Ascending(S \ {m})

\* The lines of a text, split at its newlines.
RECURSIVE SplitLines(_)
SplitLines(text) ==
  IF \A i \in 1..Len(text) : text[i] # "\n" THEN <<text>>
  ELSE LET k == CHOOSE i \in 1..Len(text) :
                  text[i] = "\n" /\ \A m \in 1..(i - 1) : text[m] # "\n"
       IN <<SubSeq(text, 1, k - 1)>> \o SplitLines(SubSeq(text, k + 1, Len(text)))

IsCsvJob(j) == batch_upload[j].file_type = "csv"
ReadableCsv(j) ==
  /\ IsCsvJob(j)
  /\ File(worker[j].file_content).utf8_ok
  /\ File(worker[j].file_content).header_ok

\* C1: a job that is Completed or Failed keeps that status in every later step
\* (of any worker, poll or upload), and a job's status changes only from
\* Processing to Completed or from Processing to Failed.
C1_StatusTerminal ==
  [][\A j \in Jobs :
       /\ batch_upload[j].status \in {"completed", "failed"}
            => batch_upload'[j].status = batch_upload[j].status
       /\ batch_upload'[j].status # batch_upload[j].status
            => /\ batch_upload[j].status = "processing"
               /\ batch_upload'[j].status \in {"completed", "failed"}]_vars

\* One job has ended Failed and another Completed while both records exist.
C1_Witness ==
  \E j \in Jobs : \E k \in Jobs :
    /\ batch_upload[j].status = "failed"
    /\ batch_upload[k].status = "completed"
    /\ worker[j].pc = "done"
    /\ worker[k].pc = "done"

\* C2: a Completed CSV job's stored error log has exactly one line per failing
\* row, in row order, each line starting with the row's number counting the
\* header (the i-th data row, from 1, is row i + 1), and the stored log is none
\* only when no row failed.
C2_ErrorLogPerFailingRow ==
  \A j \in Jobs :
    (IsCsvJob(j) /\ batch_upload[j].status = "completed") =>
      LET failing == Ascending(FailingRows(worker[j].file_content))
          log == batch_upload[j].error_log
          lines == IF log.some THEN SplitLines(log.v) ELSE <<>>
      IN /\ log.some <=> (Len(failing) > 0)
         /\ Len(lines) = Len(failing)
         /\ \A k \in 1..Len(lines) :
              /\ Len(lines[k]) >= 2
              /\ SubSeq(lines[k], 1, 2) = <<"Row ", ToString(failing[k] + 1)>>

\* C3: the stored counts of a CSV job always satisfy total = processed +
\* errors, and at Completed the total is the number of data rows of the file,
\* the errors the number of failing rows, the processed the number of rows
\* written to a store.
C3_CountsAddUp ==
  \A j \in Jobs :
    IsCsvJob(j) =>
      LET b == batch_upload[j]
          h == worker[j].file_content
      IN /\ b.total_records = b.processed_records + b.error_records
         /\ b.status = "completed" =>
              /\ b.total_records = Len(File(h).records)
              /\ b.error_records = Cardinality(FailingRows(h))
              /\ b.processed_records = upserts[j].property + upserts[j].cost_table

\* A Completed job with failed and written rows whose counts were written at a
\* checkpoint and at the end.
C3_Witness ==
  \E j \in Jobs :
    /\ IsCsvJob(j)
    /\ batch_upload[j].status = "completed"
    /\ batch_upload[j].error_records > 0
    /\ batch_upload[j].processed_records > 0
    /\ Len(count_writes[j]) > 1

C6_RecordBeforeWorkerAndResponse ==
  /\ (reply.op = "upload" /\ reply.kind = "ok") =>
       LET id == reply.body.upload_id
       IN /\ Cardinality({k \in Jobs : batch_upload[k].id = id}) = 1
          /\ id \in Jobs
          /\ batch_upload[id].status = "processing"
          /\ reply.body.status = "processing"
          /\ worker[id].row_num = 0
          /\ upserts[id] = [property |-> 0, cost_table |-> 0]
  /\ \A j \in 1..Len(worker) :
       /\ j \in Jobs
       /\ batch_upload[j].id = j
       /\ worker[j].pc = "unspawned" =>
            /\ batch_upload[j].status = "processing"
            /\ worker[j].row_num = 0

\* An upload has just been answered while an earlier job has processed rows.
C6_Witness ==
  /\ reply.op = "upload"
  /\ reply.kind = "ok"
  /\ reply.body.upload_id = 2
  /\ worker[1].row_num > 0

\* C7: the counts of a CSV job are written once after each row whose ordinal
\* is a multiple of 100, in order, after no other row, and once more after the
\* last row.
Multiples(n) == [i \in 1..(n \div 100) |-> i * 100]

C7_CheckpointWrites ==
  \A j \in Jobs :
    IsCsvJob(j) =>
      LET w == worker[j]
          n == w.total_records
      IN count_writes[j] =
           IF w.pc = "checkpoint" THEN Multiples(n - 1)
           ELSE IF w.pc \in {"status", "done"} /\ w.result.v.ok
           THEN Multiples(n) \o <<n>>
           ELSE Multiples(n)

\* A job of 201 rows has written its counts after rows 100, 200 and 201.
C7_Witness ==
  \E j \in Jobs :
    /\ worker[j].pc = "done"
    /\ count_writes[j] = <<100, 200, 201>>

\* C8: a readable row with parcel_id and address among its normalized field
\* names is written as a property and to no other store; otherwise, with
\* imp_type and cost_per_sqft, it is handled as a cost-table row and never
\* written as a property; otherwise it is an error with the classification
\* message and no store changes; no row is written to both stores.
C8_Classification ==
  [][\A j \in Jobs :
       worker'[j].row_num = worker[j].row_num + 1 =>
         LET f == File(worker[j].file_content)
             rec == f.records[worker'[j].row_num]
             names == {NormalizeHeader(f.headers[i]) :
                         i \in {c \in 1..Len(f.headers) : c <= Len(rec.cells)}}
             is_property == {K_parcel_id, K_address} \subseteq names
             is_cost == {K_imp_type, K_cost_per_sqft} \subseteq names
             to_property == upserts'[j].property = upserts[j].property + 1
             to_cost == upserts'[j].cost_table = upserts[j].cost_table + 1
             failed == worker'[j].error_records = worker[j].error_records + 1
             line == worker'[j].errors[Len(worker'[j].errors)]
         IN /\ ~(to_property /\ to_cost)
            /\ to_property \/ upserts'[j].property = upserts[j].property
            /\ to_cost \/ upserts'[j].cost_table = upserts[j].cost_table
            /\ ~to_property => property' = property
            /\ ~to_cost => cost_table' = cost_table
            /\ failed <=> ~(to_property \/ to_cost)
            /\ ~rec.ok => failed
            /\ rec.ok =>
                 /\ is_property =>
                      /\ to_property
                      /\ \E p \in 1..Len(property') :
                           /\ property'[p].parcel_id
                                = FieldMap(f.headers, rec.cells)[K_parcel_id]
                           /\ property'[p].address
                                = FieldMap(f.headers, rec.cells)[K_address]
                 /\ (~is_property /\ is_cost) =>
                      /\ ~to_property
                      /\ to_cost \/ line[5] # "Unknown record type or missing required fields"
                      /\ to_cost => Cardinality(cost_table') = Cardinality(cost_table) + 1
                 /\ (~is_property /\ ~is_cost) =>
                      /\ failed
                      /\ line[5] = "Unknown record type or missing required fields"]_vars

\* A row with the fields of both shapes has been written as a property and not
\* as a cost-table row.
C8_Witness ==
  \E j \in Jobs :
    /\ worker[j].file_content = "both"
    /\ worker[j].row_num = 1
    /\ upserts[j] = [property |-> 1, cost_table |-> 0]
    /\ Len(property) = 1
    /\ cost_table = {}

\* C9: the property store holds at most one row per parcel id, and the fields
\* of each row are those of the row applied last for its parcel id.
C9_UpsertByParcelId ==
  /\ \A i \in 1..Len(property) : \A k \in 1..Len(property) :
       property[i].parcel_id = property[k].parcel_id => i = k
  /\ \A i \in 1..Len(property) :
       /\ property[i].parcel_id \in DOMAIN last_applied
       /\ property[i] = PropertyRow(property[i].id, last_applied[property[i].parcel_id])
  /\ \A p \in DOMAIN last_applied :
       \E i \in 1..Len(property) : property[i].parcel_id = p

\* Two jobs have written the same parcel id, one of them twice.
C9_Witness ==
  /\ Len(batch_upload) >= 2
  /\ upserts[1].property = 2
  /\ upserts[2].property >= 1
  /\ Len(property) = 1

RequestOf(r) == r.body.request

\* A create_valuation response whose request passed the guard and the
\* property check and did not panic: the engine's lookups decided it.
EngineDecided ==
  /\ reply.op = "create_valuation"
  /\ reply.kind \in {"ok", "NotFound"}
  /\ PropertyById(RequestOf(reply).parcel_id).some

\* The stored cost rows equal to a request in all four fields, for the year
\* the engine asks for.
CostMatches(req) ==
  {r \in cost_table : /\ r.imp_type = req.imp_type
                      /\ r.quality = req.quality
                      /\ r.year = CurrentYear
                      /\ r.region = req.region}

\* C11: the cost factor a valuation uses is the stored entry with the highest
\* version among the entries equal to the request in type, quality, year and
\* region; when no entry equals it in all four, the valuation fails with
\* NotFound, whatever entries equal it in some of them.
C11_CostLookupExactHighestVersion ==
  EngineDecided =>
    LET req == RequestOf(reply)
        m == CostMatches(req)
    IN /\ m = {} => reply.kind = "NotFound"
       /\ reply.kind = "ok" =>
            \E r \in m :
              /\ \A q \in m : q.version <= r.version
              /\ reply.body.calculation.cost_source.version = r.version
              /\ reply.body.calculation.calculation_details.base_cost_per_sqft
                   = JsonNumber(r.cost_per_sqft)

\* A valuation that used the higher of two stored versions.
C11_Witness ==
  /\ EngineDecided
  /\ reply.kind = "ok"
  /\ \E q \in CostMatches(RequestOf(reply)) :
       q.version < reply.body.calculation.cost_source.version

\* A valuation refused although entries equal its request in three fields.
C11_WitnessPartial ==
  /\ EngineDecided
  /\ reply.kind = "NotFound"
  /\ CostMatches(RequestOf(reply)) = {}
  /\ \E r \in cost_table :
       /\ r.imp_type = RequestOf(reply).imp_type
       /\ r.year = CurrentYear
       /\ r.region = RequestOf(reply).region

\* The stored depreciation entries of a request's schedule.
ScheduleOf(req) ==
  {d \in depreciation_schedule : d.schedule_type = req.imp_type}

\* C12: the percent good a valuation uses for an effective age is that of the
\* entry of its schedule with the smallest tabulated age at or above the age,
\* and that of the entry with the largest tabulated age when the age exceeds
\* them all; the lookup fails with NotFound exactly when the schedule has no
\* entry.  With ages 5, 10 and 20: 7 gives 10's entry, 25 gives 20's, 0 gives
\* 5's.
C12_DepreciationNextHigherOrLargest ==
  EngineDecided /\ CostMatches(RequestOf(reply)) # {} =>
    LET req == RequestOf(reply)
        rows == ScheduleOf(req)
        d == reply.body.calculation.calculation_details
        above == {r \in rows : r.effective_age >= d.effective_age}
        Expected(age) == CHOOSE r \in rows : r.effective_age = age
    IN /\ reply.kind = "NotFound" <=> rows = {}
       /\ reply.kind = "ok" /\ above # {} =>
            \E r \in above :
              /\ \A q \in above : r.effective_age <= q.effective_age
              /\ d.percent_good = JsonNumber(r.percent_good)
       /\ reply.kind = "ok" /\ above = {} =>
            \E r \in rows :
              /\ \A q \in rows : q.effective_age <= r.effective_age
              /\ d.percent_good = JsonNumber(r.percent_good)
       /\ reply.kind = "ok" /\ {r.effective_age : r \in rows} = {5, 10, 20} =>
            /\ d.effective_age = 7 =>
                 d.percent_good = JsonNumber(Expected(10).percent_good)
            /\ d.effective_age = 25 =>
                 d.percent_good = JsonNumber(Expected(20).percent_good)
            /\ d.effective_age = 0 =>
                 d.percent_good = JsonNumber(Expected(5).percent_good)

\* A valuation of age 25 against the ages 5, 10 and 20: the fallback.
C12_Witness ==
  /\ EngineDecided
  /\ reply.kind = "ok"
  /\ reply.body.calculation.calculation_details.effective_age = 25
  /\ {r.effective_age : r \in ScheduleOf(RequestOf(reply))} = {5, 10, 20}

\* A valuation of age 7 against the same ages.
C12_WitnessBetween ==
  /\ EngineDecided
  /\ reply.kind = "ok"
  /\ reply.body.calculation.calculation_details.effective_age = 7

\* A valuation refused because its schedule has no entry.
C12_WitnessNoSchedule ==
  /\ EngineDecided
  /\ reply.kind = "NotFound"
  /\ CostMatches(RequestOf(reply)) # {}

\* The percent good of the entry the depreciation policy resolves for the
\* effective age max(CurrentYear - year_built, 0) of a request.  The age is
\* compared without being computed: age <= a is CurrentYear <= a + year_built.
PercentGoodForAgeOf(req) ==
  LET rows == ScheduleOf(req)
      above == {r \in rows : CurrentYear <= r.effective_age + req.year_built}
      r == IF above # {}
           THEN CHOOSE x \in above : \A q \in above : x.effective_age <= q.effective_age
           ELSE CHOOSE x \in rows : \A q \in rows : q.effective_age <= x.effective_age
  IN r.percent_good

\* The unit cost of the highest version among the entries equal to a request
\* in all four fields for the current year.
UnitCostOf(req) ==
  (CHOOSE r \in CostMatches(req) :
     \A q \in CostMatches(req) : q.version <= r.version).cost_per_sqft

\* What C13 says of a valuation the engine produced.
EngineAsClaimed ==
  LET req == RequestOf(reply)
      d == reply.body.calculation.calculation_details
      rcn == FMul(FMul(FMul(UnitCostOf(req), req.sqft), Fin(105, 2)), Fin(102, 2))
  IN /\ d.base_cost_per_sqft = JsonNumber(UnitCostOf(req))
     /\ d.market_factor = Fin(105, 2)
     /\ d.location_factor = Fin(102, 2)
     /\ d.percent_good = JsonNumber(PercentGoodForAgeOf(req))
     /\ d.rcn = JsonNumber(rcn)
     /\ d.final_value = JsonNumber(FMul(rcn, PercentGoodForAgeOf(req)))

\* What C13 says of a single-scenario calculation.
ScenarioAsClaimed ==
  LET req == reply.body.request
      c == reply.body.calculation.calculations
      rcn == FMul(FMul(FMul(req.base_cost, req.sqft), req.market_factor),
                  req.location_factor)
      final_value == FMul(rcn, req.percent_good)
  IN /\ c.rcn = JsonNumber(rcn)
     /\ c.final_value = JsonNumber(final_value)
     /\ c.depreciation_applied = JsonNumber(FSub(rcn, final_value))

\* C13: for all inputs, a valuation's RCN is unit cost * area * market *
\* location and its final value RCN * percent good, with the cost factor of
\* the current year, the depreciation entry of effective age
\* max(current year - year built, 0) and the factors 1.05 and 1.02; a single
\* scenario's RCN and final value are the same products of its inputs and its
\* depreciation applied is RCN - final value.
C13_ValuationFormula ==
  /\ EngineDecided /\ reply.kind = "ok" => EngineAsClaimed
  /\ reply.op = "create_scenario" /\ reply.kind = "ok" => ScenarioAsClaimed

\* The same for the years built whose age fits an i32.
C13_WithinI32Range ==
  /\ EngineDecided /\ reply.kind = "ok"
       /\ ~SubOverflows(CurrentYear, RequestOf(reply).year_built)
       => EngineAsClaimed
  /\ reply.op = "create_scenario" /\ reply.kind = "ok" => ScenarioAsClaimed

\* A step of create_valuation, and the request it answers.
CreateValuationStep ==
  /\ reply'.op = "create_valuation"
  /\ requests' = requests + 1

\* Whether one of the three lookups of a valuation request finds nothing.
LookupMisses(req) ==
  \/ ~PropertyById(req.parcel_id).some
  \/ CostMatches(req) = {}
  \/ ScheduleOf(req) = {}

\* The RCN the engine computes for a request: an f64, before any conversion.
ComputedRcn(req) ==
  calculate_rcn(UnitCostOf(req), req.sqft, DefaultMarketFactor,
                DefaultLocationFactor)

\* What C14 says of one create_valuation step that passed the role guard and
\* ran to its response; finite_only restricts the statement about the stored
\* numbers to requests whose computed RCN is finite.
CreateValuationAsClaimed(finite_only) ==
  LET req == RequestOf(reply')
      d == reply'.body.calculation.calculation_details
      rec == valuation'[Len(valuation')]
  IN /\ LookupMisses(req) => reply'.kind = "NotFound"
     /\ reply'.kind = "NotFound" => valuation' = valuation
     /\ reply'.kind = "ok" =>
          /\ Len(valuation') = Len(valuation) + 1
          /\ SubSeq(valuation', 1, Len(valuation)) = valuation
          /\ rec.parcel_id = req.parcel_id
          /\ \/ finite_only /\ ComputedRcn(req).c # "fin"
             \/ /\ rec.rcn = ComputedRcn(req)
                /\ rec.percent_good = d.percent_good
                /\ rec.final_value
                     = apply_depreciation(ComputedRcn(req), d.percent_good)

\* C14: creating a valuation fails with NotFound when the property is not
\* stored, when no cost factor matches or when the depreciation schedule has
\* no entry, and then leaves the valuation store as it was; on success it adds
\* exactly one record, which holds the computed RCN, percent good and final
\* value.
C14_CreateValuationOutcome ==
  [][CreateValuationStep /\ reply'.kind \in {"ok", "NotFound"}
       => CreateValuationAsClaimed(FALSE)]_vars

\* The same, saying nothing of the stored numbers when the computed RCN is
\* not finite.
C14_WhenFinite ==
  [][CreateValuationStep /\ reply'.kind \in {"ok", "NotFound"}
       => CreateValuationAsClaimed(TRUE)]_vars

\* Whether the stored property of an id gives the engine nothing to work
\* with: it is missing, lacks a required field, has no cost factor or no
\* depreciation entry.
PropertyMisses(id) ==
  LET p == PropertyById(id)
  IN \/ ~p.some
     \/ ~(/\ p.v.imp_type.some /\ p.v.quality.some /\ p.v.sqft.some
          /\ p.v.year_built.some /\ p.v.region.some)
     \/ LookupMisses([parcel_id |-> id, imp_type |-> p.v.imp_type.v,
                      quality |-> p.v.quality.v, region |-> p.v.region.v])

\* Whether the numbers of a success item are all JSON numbers.
ItemIsFinite(item) ==
  LET d == item.valuation.calculation_details
  IN as_f64(d.rcn).some /\ as_f64(d.percent_good).some /\ as_f64(d.final_value).some

\* What C15 says of the response of a batch valuation; finite_only restricts
\* the statement about the records of success items to the items whose
\* numbers are finite.
BatchValuationAsClaimed(finite_only) ==
  LET ids == reply.body.property_ids
      results == reply.body.results
      persisted == reply.body.persisted
  IN /\ Len(results) = Len(ids)
     /\ \A i \in 1..Len(ids) :
          /\ results[i].property_id = ids[i]
          /\ PropertyMisses(ids[i]) => results[i].status = "error"
          /\ results[i].status = "error" => persisted[i] = 0
          /\ results[i].status = "success" =>
               \/ finite_only /\ ~ItemIsFinite(results[i])
               \/ /\ persisted[i] \in 1..Len(valuation)
                  /\ valuation[persisted[i]].parcel_id = ids[i]
     /\ reply.body.summary.successful + reply.body.summary.errors = Len(ids)
     /\ reply.body.summary.successful
          = Cardinality({i \in 1..Len(results) : results[i].status = "success"})

\* C15: the response of a batch valuation lists one item per requested id in
\* the order requested; an id whose property is missing, lacks required
\* fields or has no cost factor or depreciation entry gives an error item and
\* the ids after it are still handled; every success item has a valuation
\* record persisted for it and no error item has one; successful + errors is
\* the number of ids requested.
C15_BatchItemsIndependent ==
  reply.op = "batch_valuation" /\ reply.kind = "ok" =>
    BatchValuationAsClaimed(FALSE)

\* The same, saying nothing of the record of a success item whose numbers are
\* not finite.
C15_WhenFinite ==
  reply.op = "batch_valuation" /\ reply.kind = "ok" =>
    BatchValuationAsClaimed(TRUE)

\* A step that starts a batch valuation of the ids, or rejects it.
BatchStartStep(ids) ==
  /\ requests' = requests + 1
  /\ \/ reply'.op = "batch_valuation" /\ reply'.body.property_ids = ids
     \/ /\ Len(valbatch') = Len(valbatch) + 1
        /\ valbatch'[Len(valbatch')].property_ids = ids

\* A step of compare_scenarios_endpoint that got past authentication.
CompareStep ==
  /\ reply'.op = "compare_scenarios"
  /\ reply'.kind # "Authentication"

ComparedIds == reply'.body.scenario_ids

\* C16: a batch valuation of more than 1000 ids and a scenario comparison of
\* more than 10 ids are rejected with Validation, no property or scenario
\* having been looked up and nothing persisted; a batch of exactly 1000 ids
\* and a comparison of exactly 10 ids are not rejected by the cap.
C16_SizeCaps ==
  [][/\ \A ids \in LongIdLists :
          BatchStartStep(ids) =>
            IF Len(ids) > 1000
            THEN /\ reply'.kind = "Validation"
                 /\ UNCHANGED <<valbatch, valuation, scenario, property, cost_table>>
            ELSE /\ reply' = NoReply
                 /\ valbatch'[Len(valbatch')].index = 0
     /\ CompareStep =>
          IF Len(ComparedIds) > 10
          THEN /\ reply'.kind = "Validation"
               /\ UNCHANGED <<valbatch, valuation, scenario, property, cost_table>>
          ELSE reply'.kind \in {"ok", "NotFound", "Authorization"}
    ]_vars

\* A batch of exactly 1000 ids answered with its 1000 items.
C16_Witness ==
  /\ reply.op = "batch_valuation"
  /\ reply.kind = "ok"
  /\ Len(reply.body.property_ids) = 1000
  /\ Len(reply.body.results) = 1000

\* A comparison of exactly 10 ids answered.
C16_WitnessCompare ==
  /\ reply.op = "compare_scenarios"
  /\ reply.kind = "ok"
  /\ Len(reply.body.scenario_ids) = 10

\* A comparison of 11 ids, the last of which is not stored, rejected.
C16_WitnessCompareRejected ==
  /\ reply.op = "compare_scenarios"
  /\ reply.kind = "Validation"
  /\ Len(reply.body.scenario_ids) = 11
  /\ ~get_scenario(reply.body.scenario_ids[11]).some

\* A step of create_matrix_scenario that passed the role guard.
MatrixStep ==
  /\ reply'.op = "create_matrix_scenario"
  /\ requests' = requests + 1
  /\ reply'.kind \notin {"Authentication", "Authorization"}

\* C17: a matrix request with more than 100 combinations is rejected with
\* Validation, nothing computed or persisted; one with at most 100 returns one
\* result per combination, numbered from 1 with the market factor varying
\* slowest, then the location factor, then the percent good.
C17_MatrixCapAndOrder ==
  [][MatrixStep =>
       LET req == reply'.body.request
           nm == Len(req.market_factors)
           nl == Len(req.location_factors)
           np == Len(req.percent_goods)
       IN IF nm * nl * np > 100
          THEN /\ reply'.kind = "Validation"
               /\ UNCHANGED <<scenario, next_scenario_id, valuation>>
          ELSE LET res == reply'.body.matrix_result.scenarios
               IN /\ reply'.kind = "ok"
                  /\ Len(res) = nm * nl * np
                  /\ \A k \in 1..Len(res) : res[k].scenario_id = k
                  /\ \A a \in 1..nm, b \in 1..nl, c \in 1..np :
                       LET e == res[((a - 1) * nl + (b - 1)) * np + c]
                       IN /\ e.parameters.market_factor
                               = JsonNumber(req.market_factors[a])
                          /\ e.parameters.location_factor
                               = JsonNumber(req.location_factors[b])
                          /\ e.parameters.percent_good
                               = JsonNumber(req.percent_goods[c])
                          /\ e.result.inputs.market_factor
                               = JsonNumber(req.market_factors[a])
                          /\ e.result.inputs.location_factor
                               = JsonNumber(req.location_factors[b])
                          /\ e.result.inputs.percent_good
                               = JsonNumber(req.percent_goods[c])
                  /\ scenario' = scenario \cup {reply'.body.scenario}
                  /\ reply'.body.scenario.results.v.scenarios = res
    ]_vars

\* A matrix of exactly 100 combinations answered with its 100 results.
C17_Witness ==
  /\ reply.op = "create_matrix_scenario"
  /\ reply.kind = "ok"
  /\ Len(reply.body.matrix_result.scenarios) = 100
  /\ Len(reply.body.request.location_factors) > 1

\* A matrix of 125 combinations rejected.
C17_WitnessRejected ==
  /\ reply.op = "create_matrix_scenario"
  /\ reply.kind = "Validation"
  /\ Len(reply.body.request.market_factors) = 5
  /\ Len(reply.body.request.percent_goods) = 5

\* The final value of the i-th scenario a comparison names, in input order:
\* a number, or null for a scenario that has none.
ComparedFinalValue(i) ==
  JsonGet(JsonGet(get_scenario(reply.body.scenario_ids[i]).v.results.v,
                  "calculations"), "final_value")

\* What C18 says of an answered comparison in which some scenario has a final
\* value.
ComparisonAsClaimed ==
  LET n == Len(reply.body.scenario_ids)
      valued == {i \in 1..n : as_f64(ComparedFinalValue(i)).some}
      imax == CHOOSE i \in valued :
                \A j \in valued : ~FLess(ComparedFinalValue(i), ComparedFinalValue(j))
      imin == CHOOSE i \in valued :
                \A j \in valued : ~FLess(ComparedFinalValue(j), ComparedFinalValue(i))
      FirstAt(v) == CHOOSE i \in valued :
                      /\ ComparedFinalValue(i) = v
                      /\ \A j \in valued : ComparedFinalValue(j) = v => i <= j
      a == reply.body.comparison.analysis.v
  IN /\ a.best_scenario = FirstAt(ComparedFinalValue(imax)) - 1
     /\ a.worst_scenario = FirstAt(ComparedFinalValue(imin)) - 1
     /\ a.value_range.spread
          = FSub(ComparedFinalValue(imax), ComparedFinalValue(imin))
     /\ [i \in 1..n |-> ComparedFinalValue(i)]
          = <<Fin(100000, 0), Fin(150000, 0), Fin(120000, 0)>>
        => /\ a.best_scenario = 1
           /\ a.worst_scenario = 0
           /\ a.value_range.spread = Fin(50000, 0)

\* An answered comparison, by the endpoint or of the payloads themselves, in
\* which some scenario named has a final value.
ComparisonAnswered ==
  /\ reply.op \in {"compare_scenarios", "compare_scenarios_of_payloads"}
  /\ reply.kind = "ok"
  /\ \E i \in 1..Len(reply.body.scenario_ids) : as_f64(ComparedFinalValue(i)).some

\* C18: in a scenario comparison the best (worst) scenario index is the
\* position, in the order the scenarios were named and counted from 0, of the
\* first scenario whose final value equals the maximum (minimum) final value,
\* and the spread is maximum - minimum; final values 100000, 150000, 120000
\* give best 1, worst 0, spread 50000.
C18_BestWorstByInputPosition ==
  ComparisonAnswered =>
    /\ reply.body.comparison.analysis.some
    /\ ComparisonAsClaimed

\* The same for compare_scenarios applied to payloads that all have a final
\* value.
C18_OfValuedPayloads ==
  /\ ComparisonAnswered
  /\ reply.op = "compare_scenarios_of_payloads"
  /\ \A i \in 1..Len(reply.body.scenario_ids) : as_f64(ComparedFinalValue(i)).some
  => /\ reply.body.comparison.analysis.some
     /\ ComparisonAsClaimed

\* The endpoint hands compare_scenarios the "calculations" member of each
\* payload, in which compare_scenarios finds no "calculations" member: its
\* answers carry no per-scenario entry and no analysis.
C18_EndpointReportsNoAnalysis ==
  reply.op = "compare_scenarios" /\ reply.kind = "ok" =>
    /\ reply.body.comparison.comparisons = <<>>
    /\ ~reply.body.comparison.analysis.some

\* The endpoint's comparison of the three scenarios of the example.
C18_WitnessExample ==
  /\ ComparisonAnswered
  /\ reply.op = "compare_scenarios"
  /\ [i \in 1..Len(reply.body.scenario_ids) |-> ComparedFinalValue(i)]
       = <<Fin(100000, 0), Fin(150000, 0), Fin(120000, 0)>>

\* compare_scenarios applied to the three payloads of the example.
C18_WitnessExamplePayloads ==
  /\ ComparisonAnswered
  /\ reply.op = "compare_scenarios_of_payloads"
  /\ reply.body.comparison.analysis =
       Some([value_range |-> [min |-> Fin(100000, 0), max |-> Fin(150000, 0),
                              spread |-> Fin(50000, 0)],
             best_scenario |-> 1, worst_scenario |-> 0])
  /\ [i \in 1..Len(reply.body.scenario_ids) |-> ComparedFinalValue(i)]
       = <<Fin(100000, 0), Fin(150000, 0), Fin(120000, 0)>>

\* compare_scenarios applied to a payload without a final value followed by
\* one with a final value: the index reported is 0, the position named is 1.
C18_WitnessShifted ==
  /\ ComparisonAnswered
  /\ reply.op = "compare_scenarios_of_payloads"
  /\ Len(reply.body.scenario_ids) = 2
  /\ ~as_f64(ComparedFinalValue(1)).some
  /\ reply.body.comparison.analysis.some
  /\ reply.body.comparison.analysis.v.best_scenario = 0

(***************************************************************************)
(* Properties of the guards.                                               *)
(***************************************************************************)
\* Admin > Assessor > Analyst > Viewer
Rank(role) ==
  CASE role = R_admin -> 4
    [] role = R_assessor -> 3
    [] role = R_analyst -> 2
    [] role = R_viewer -> 1

Satisfies(role, required_role) == Rank(role) >= Rank(required_role)

\* The guarded operations and the minimum role of each.
GuardedOps == {"create_valuation", "create_scenario", "register",
               "create_cost_table", "delete_cost_table"}

MinRole(op) ==
  CASE op \in {"create_valuation", "create_scenario"} -> R_analyst
    [] op = "create_cost_table" -> R_assessor
    [] op \in {"register", "delete_cost_table"} -> R_admin

\* A request of the given role for the guarded operation op.
RoleStep(op, user) ==
  /\ reply'.op = op
  /\ CASE op = "create_scenario" ->
            \E req \in RoleScenarioRequests : create_scenario(user, req, MaxRoleRequests)
       [] op = "register" ->
            \E req \in RoleRegisterRequests : register(user, req, MaxRoleRequests)
       [] op = "create_cost_table" ->
            \E req \in RoleCostRequests : create_cost_table(user, req)
       [] op = "delete_cost_table" -> delete_cost_table(user, 1)
       [] OTHER -> FALSE

\* C19: the role hierarchy is the total order Admin > Assessor > Analyst >
\* Viewer: can_access holds exactly of a role and a requirement that is the
\* same role or a lower one, and each guard rejects a role with Authorization
\* exactly when the role does not satisfy the guard's minimum role (Admin-only
\* admits Admin; Assessor-or-above admits Admin and Assessor;
\* Analyst-or-above admits Admin, Assessor and Analyst).
C19_GuardsFollowTheRoleOrder ==
  [][/\ reply'.op = "can_access" =>
          reply'.body.allowed
            = Satisfies(reply'.body.user_role, reply'.body.required_role)
     /\ \A op \in GuardedOps, user \in Principals :
          RoleStep(op, user) =>
            (reply'.kind = "Authorization" <=> ~Satisfies(user.role, MinRole(op)))
    ]_vars

\* The Assessor-or-above guard admitted a request, which stored a cost-table
\* entry.
C19_Witness ==
  /\ reply.op = "create_cost_table"
  /\ reply.kind = "ok"

\* can_access refused an Analyst where an Assessor is required.
C19_WitnessRefused ==
  /\ reply.op = "can_access"
  /\ reply.body.user_role = R_analyst
  /\ reply.body.required_role = R_assessor
  /\ ~reply.body.allowed

\* A request with the given credential for the guarded operation op.
GuardedStep(op, user) ==
  /\ reply'.op = op
  /\ CASE op = "create_valuation" ->
            \E req \in AuthValuationRequests :
              create_valuation(user, req, "wrap", MaxAuthRequests)
       [] op = "register" ->
            \E req \in RegisterRequests : register(user, req, MaxAuthRequests)
       [] op = "create_cost_table" ->
            \E req \in AuthCostRequests : create_cost_table(user, req)
       [] op = "delete_cost_table" ->
            \E segment \in PathSegments : delete_cost_table_route(user, segment)
       [] OTHER -> FALSE

\* The stores, without the history counters.
Stores == <<property, cost_table, next_cost_id, depreciation_schedule, valuation,
            scenario, next_scenario_id, users, batch_upload>>

\* What C20 says of a request for a guarded operation.
GuardAsClaimed(op, user) ==
  /\ ~Authenticated(user) =>
       reply'.kind = "Authentication" /\ UNCHANGED Stores
  /\ Authenticated(user) /\ ~Satisfies(user.role, MinRole(op)) =>
       reply'.kind = "Authorization" /\ UNCHANGED Stores
  /\ user = AnalystUser /\ op = "create_valuation" =>
       reply'.kind \notin {"Authentication", "Authorization"}
  /\ user = AnalystUser /\ op = "register" => reply'.kind = "Authorization"

\* C20: for every guarded operation with minimum role R, a request with an
\* absent, malformed, expired or invalid credential fails with Authentication,
\* a request with a valid credential whose role does not satisfy R fails with
\* Authorization and with no other kind, and in both cases no store changes;
\* a valid Analyst is not refused a valuation and is refused a registration
\* with Authorization.
C20_GuardFailures ==
  [][\A op \in GuardedOps, user \in Users :
       GuardedStep(op, user) => GuardAsClaimed(op, user)]_vars

\* The same for the requests whose path decodes.
C20_WhenPathDecodes ==
  [][\A op \in GuardedOps, user \in Users :
       GuardedStep(op, user) /\ reply'.kind # "PathRejection"
         => GuardAsClaimed(op, user)]_vars

\* A request to delete the cost-table entry "x" was answered by the Path
\* rejection.
C20_WitnessPathRejection ==
  /\ reply.op = "delete_cost_table"
  /\ reply.kind = "PathRejection"

\* A registration was refused with Authorization after a valuation was stored.
C20_WitnessAnalyst ==
  /\ reply.op = "register"
  /\ reply.kind = "Authorization"
  /\ Len(valuation) > 0

(***************************************************************************)
(* Properties of ownership.                                                *)
(***************************************************************************)
\* The principal is the creator of the stored scenario, or an Admin.
OwnerOrAdmin(user, id) ==
  \/ get_scenario(id).v.created_by = Some(user.user_id)
  \/ RoleFromStr(user.role) = [ok |-> TRUE, role |-> R_admin]

\* A delete request of the given credential for the scenario id.
DeleteStep(user, id) ==
  /\ reply'.op = "delete_scenario"
  /\ delete_scenario_endpoint(user, id)

\* C21: a scenario is deleted only by its creator or an Admin: a delete by
\* any other authenticated principal fails with Authorization and leaves the
\* scenario stored, a delete of a scenario that is not stored fails with
\* NotFound, and no step other than a permitted delete changes or removes a
\* stored scenario.
C21_DeleteOnlyByOwnerOrAdmin ==
  [][/\ \A user \in ScenarioUsers, id \in ScenarioIds :
          DeleteStep(user, id) /\ Authenticated(user) =>
            /\ ~get_scenario(id).some => reply'.kind = "NotFound"
            /\ get_scenario(id).some /\ ~OwnerOrAdmin(user, id) =>
                 /\ reply'.kind = "Authorization"
                 /\ scenario' = scenario
            /\ reply'.kind = "ok" =>
                 /\ get_scenario(id).some
                 /\ OwnerOrAdmin(user, id)
                 /\ scenario' = scenario \ {get_scenario(id).v}
     /\ \A s \in scenario :
          s \in scenario'
            \/ /\ reply'.op = "delete_scenario"
               /\ reply'.kind = "ok"
               /\ reply'.body.scenario_id = s.id
    ]_vars

\* A delete by a principal that is neither the creator nor an Admin was
\* refused with Authorization, the scenario still stored.
C21_Witness ==
  /\ reply.op = "delete_scenario"
  /\ reply.kind = "Authorization"
  /\ get_scenario(reply.body.scenario_id).some

\* A permitted delete removed a scenario while another stayed stored.
C21_WitnessDeleted ==
  /\ reply.op = "delete_scenario"
  /\ reply.kind = "ok"
  /\ ~get_scenario(reply.body.scenario_id).some
  /\ scenario # {}

\* A delete of a scenario that is not stored failed with NotFound.
C21_WitnessNotFound ==
  /\ reply.op = "delete_scenario"
  /\ reply.kind = "NotFound"

\* The principal is the creator of the stored job, or an Admin.
JobOwnerOrAdmin(user, id) ==
  \/ batch_upload[id].created_by = user.user_id
  \/ RoleFromStr(user.role) = [ok |-> TRUE, role |-> R_admin]

\* C22: a scenario or a batch job is read in detail only by its creator or an
\* Admin: a detail read (get_scenario_endpoint, get_batch_status, a
\* comparison) of a stored item by any other authenticated principal is
\* refused, and one by the creator or by an Admin succeeds.
C22_DetailReadByOwnerOrAdmin ==
  [][/\ \A user \in ScenarioUsers, id \in 1..2 :
          /\ reply'.op = "get_scenario"
          /\ get_scenario_endpoint(user, id)
          /\ Authenticated(user)
          /\ get_scenario(id).some
          => (reply'.kind = "ok" <=> OwnerOrAdmin(user, id))
     /\ \A user \in ScenarioUsers, id \in 1..2 :
          /\ reply'.op = "compare_scenarios"
          /\ compare_scenarios_endpoint(user, <<id>>)
          /\ Authenticated(user)
          /\ get_scenario(id).some
          => (reply'.kind = "ok" <=> OwnerOrAdmin(user, id))
     /\ \A user \in Principals, id \in 1..2 :
          /\ reply'.op = "status"
          /\ GetBatchStatus(user, id)
          /\ id \in Jobs
          => (reply'.kind = "ok" <=> JobOwnerOrAdmin(user, id))
    ]_vars

\* The same for the comparisons alone.
C22_CompareByOwnerOrAdmin ==
  [][\A user \in ScenarioUsers, id \in 1..2 :
       /\ reply'.op = "compare_scenarios"
       /\ compare_scenarios_endpoint(user, <<id>>)
       /\ Authenticated(user)
       /\ get_scenario(id).some
       => (reply'.kind = "ok" <=> OwnerOrAdmin(user, id))]_vars

\* get_scenario_endpoint answers every authenticated principal with the
\* stored scenario.
C22_ScenarioReadByAnyPrincipal ==
  [][\A user \in ScenarioUsers, id \in 1..2 :
       /\ reply'.op = "get_scenario"
       /\ get_scenario_endpoint(user, id)
       /\ Authenticated(user)
       /\ get_scenario(id).some
       => reply'.kind = "ok"]_vars

\* get_batch_status answers the creator alone: an Admin who did not create
\* the job is answered NotFound.
C22_JobReadByCreatorOnly ==
  [][\A user \in Principals, id \in 1..2 :
       /\ reply'.op = "status"
       /\ GetBatchStatus(user, id)
       /\ id \in Jobs
       => (reply'.kind = "ok" <=> batch_upload[id].created_by = user.user_id)]_vars

\* A stored scenario was read and a job is stored.
C22_WitnessReads ==
  /\ reply.op = "get_scenario"
  /\ reply.kind = "ok"
  /\ Len(batch_upload) > 0

(***************************************************************************)
(* Properties of jobs whose task stops.                                    *)
(***************************************************************************)
\* C23: a job whose task stopped (a crash or a process restart) before its
\* final status write stays in Processing in every later state: once stopped
\* the task stays stopped, and no step of any other task, poll or upload
\* changes the job's record.
C23_StoppedJobStaysProcessing ==
  [][\A j \in Jobs :
       /\ worker'[j].pc = "stopped" => batch_upload'[j].status = "processing"
       /\ worker[j].pc = "stopped" =>
            /\ worker'[j].pc = "stopped"
            /\ batch_upload'[j] = batch_upload[j]
    ]_vars

\* A job's task stopped, and afterwards another job completed.
C23_Witness ==
  \E j, k \in Jobs :
    /\ worker[j].pc = "stopped"
    /\ batch_upload[j].status = "processing"
    /\ j < k
    /\ batch_upload[k].status = "completed"

\* A job's task stopped with its counts written and its status write pending.
C23_WitnessBeforeStatusWrite ==
  \E j \in Jobs :
    /\ worker[j].pc = "stopped"
    /\ worker[j].result.some
    /\ batch_upload[j].status = "processing"

(***************************************************************************)
(* Properties of the cost-table rows of a file.                            *)
(***************************************************************************)
\* The field map of the row the task of job j is at.
RowData(j) ==
  FieldMap(File(worker[j].file_content).headers,
           File(worker[j].file_content).records[worker[j].row_num + 1].cells)

\* The task of job j processes a readable row that is a cost-table row.
CostRowStep(j) ==
  /\ worker[j].pc = "rows"
  /\ File(worker[j].file_content).records[worker[j].row_num + 1].ok
  /\ ~(contains_key(RowData(j), K_parcel_id) /\ contains_key(RowData(j), K_address))
  /\ contains_key(RowData(j), K_imp_type)
  /\ contains_key(RowData(j), K_cost_per_sqft)
  /\ ProcessRow(j)

\* A required field of the row is missing or does not parse.
RequiredFieldFails(data) ==
  \/ ~contains_key(data, K_year)
  \/ ~ParseI32(data[K_year]).ok
  \/ ~contains_key(data, K_region)
  \/ ~ParseF64(data[K_cost_per_sqft]).ok

\* The effective date C24 gives the row.
ClaimedEffectiveDate(data) ==
  IF contains_key(data, K_effective_date) /\ ParseDate(data[K_effective_date]).ok
  THEN ParseDate(data[K_effective_date]).v
  ELSE Today

\* What C24 says of a cost-table row, with or without the rows whose
\* effective date is present and does not parse and the rows without quality.
CostRowAsClaimed(j, parsing_only) ==
  LET data == RowData(j)
      failed == worker'[j].error_records = worker[j].error_records + 1
      excluded ==
        \/ ~contains_key(data, K_quality)
        \/ /\ contains_key(data, K_effective_date)
           /\ ~ParseDate(data[K_effective_date]).ok
  IN \/ parsing_only /\ excluded
     \/ /\ failed <=> RequiredFieldFails(data)
        /\ ~RequiredFieldFails(data) =>
             \E r \in cost_table' :
               /\ r \notin cost_table
               /\ r.year = ParseI32(data[K_year]).v
               /\ r.effective_date = ClaimedEffectiveDate(data)

\* C24: a cost-table row fails only when a required field (year, region,
\* cost_per_sqft) is missing or does not parse; otherwise it is inserted, with
\* the current date as effective_date when the column is absent and when its
\* value does not parse as YYYY-MM-DD.
C24_EffectiveDateDefaults ==
  [][\A j \in Jobs : CostRowStep(j) => CostRowAsClaimed(j, FALSE)]_vars

\* The same for the rows that have a quality and whose effective date is
\* absent or parses.
C24_WhenDateAbsentOrParses ==
  [][\A j \in Jobs : CostRowStep(j) => CostRowAsClaimed(j, TRUE)]_vars

\* A row whose effective date is present and does not parse fails, and stores
\* nothing.
C24_UnparsableDateFailsTheRow ==
  [][\A j \in Jobs :
       /\ CostRowStep(j)
       /\ contains_key(RowData(j), K_effective_date)
       /\ ~ParseDate(RowData(j)[K_effective_date]).ok
       /\ ~RequiredFieldFails(RowData(j))
       => /\ worker'[j].error_records = worker[j].error_records + 1
          /\ cost_table' = cost_table]_vars

\* A row without the column was stored with the current date, and a row with
\* a date was stored with it.
C24_WitnessDefault ==
  /\ \E r \in cost_table : r.effective_date = Today
  /\ \E r \in cost_table : r.effective_date # Today

\* The job of the dated file completed with three failed rows.
C24_WitnessFailedRows ==
  \E j \in Jobs :
    /\ worker[j].file_content = "dated"
    /\ batch_upload[j].status = "completed"
    /\ batch_upload[j].error_records = 3

(***************************************************************************)
(* Properties of the job records under concurrency.                        *)
(***************************************************************************)
\* A step changes the record of job j only as a step of j's own task, and
\* then changes the record of no other job; a read changes no record.
JobFrame ==
  /\ \A j \in Jobs :
       batch_upload'[j] # batch_upload[j] =>
         /\ worker'[j] # worker[j]
         /\ \A k \in Jobs \ {j} :
              /\ batch_upload'[k] = batch_upload[k]
              /\ worker'[k] = worker[k]
  /\ reply'.op \in {"status", "history"} => UNCHANGED <<batch_upload, worker>>

\* C25: a job record is mutated only by its own background worker: status and
\* history reads change nothing, and with several jobs running concurrently
\* every count, error-log and status write of one job's worker changes that
\* job's record and leaves every other job's record unchanged.
C25_JobMutatedOnlyByOwnWorker == [][JobFrame]_vars

\* The write at a progress checkpoint changes the record of its own job and
\* of no other job stored (ingestion of the long files, one job after the other,
\* with MaxSeqJobs at 2 or more).
C25_FrameAtCheckpoints ==
  [][\A j \in Jobs :
       worker[j].pc = "checkpoint" /\ Checkpoint(j) =>
         /\ batch_upload'[j] # batch_upload[j]
         /\ \A k \in Jobs \ {j} : batch_upload'[k] = batch_upload[k]]_vars

\* Two jobs in progress together: the counts of one written, the record of the
\* other as it was inserted.
C25_Witness ==
  \E j, k \in Jobs :
    /\ worker[j].pc = "status"
    /\ batch_upload[j].total_records > 0
    /\ worker[k].pc \in {"rows", "final"}
    /\ batch_upload[k] = NewBatchUpload(k, batch_upload[k].filename,
                                        batch_upload[k].file_type,
                                        batch_upload[k].created_by)

\* A history read listed two jobs of which one is still processing.
C25_WitnessRead ==
  /\ reply.op = "history"
  /\ Len(reply.body) = 2
  /\ \E j \in Jobs : worker[j].pc \in {"rows", "final", "status"}

(***************************************************************************)
(* Cost factor lookups are reads of the cost table.                        *)
(***************************************************************************)
\* What the cost table resolves a fully given query to.
Resolved(ct, query) ==
  get_cost_factor(ct, query.imp_type.v, query.quality.v, query.year.v, query.region.v)

LookupAnswered == reply.op = "lookup_cost_factor" /\ reply.kind = "ok"

\* C26: a cost factor lookup changes no stored state and its answer is the
\* resolution of its key in the cost table as stored, so that two lookups of
\* one (type, quality, year, region) with no cost-table write in between
\* return the same version and the same unit cost.
C26_LookupIsARepeatableRead ==
  [][reply'.op = "lookup_cost_factor" =>
       /\ UNCHANGED <<batch_upload, worker, property, cost_table, next_cost_id, bulk, count_writes, upserts, last_applied, api_writes>>
       /\ UNCHANGED analysis_vars
       /\ reply'.kind = "ok" =>
            /\ reply'.body.cost_table = Resolved(cost_table, reply'.body.query)
            /\ reply'.body.found = reply'.body.cost_table.some
            /\ LookupAnswered /\ reply.body.query = reply'.body.query =>
                 /\ reply'.body.found = reply.body.found
                 /\ reply.body.found =>
                      /\ reply'.body.cost_table.v.version = reply.body.cost_table.v.version
                      /\ reply'.body.cost_table.v.cost_per_sqft = reply.body.cost_table.v.cost_per_sqft]_vars

\* A lookup of a key stored in two versions returned the second.
C26_Witness ==
  /\ LookupAnswered
  /\ reply.body.found
  /\ reply.body.cost_table.v.version = 2
  /\ \E r \in cost_table : Key4(r) = Key4(reply.body.cost_table.v) /\ r.version = 1

\* A lookup after a write: the key created through the API was found, and a
\* key whose only row was deleted was not.
C26_WitnessAfterWrite ==
  /\ LookupAnswered
  /\ api_writes > 0
  /\ reply.body.found
  /\ reply.body.cost_table.v.year = 2024

C26_WitnessNotFound ==
  /\ LookupAnswered
  /\ ~reply.body.found

(***************************************************************************)
(* Valuation records are append-only.                                      *)
(***************************************************************************)
ValuationRead == reply.op \in {"get_valuation", "get_valuation_history"}

\* C27: no step modifies or removes a stored valuation record; the read of a
\* parcel's valuation returns the most recently created record of the parcel
\* when it has one; and no read adds a record, the read of a parcel without
\* record, which computes a valuation, included.
C27_RecordsAppendOnly ==
  [][/\ Len(valuation') >= Len(valuation)
     /\ \A i \in 1..Len(valuation) : valuation'[i] = valuation[i]
     /\ reply'.op \in {"get_valuation", "get_valuation_history"} => valuation' = valuation
     /\ reply'.op = "get_valuation" /\ reply'.kind # "Authentication" =>
          LET mine == ValuationsOf(valuation, reply'.body.parcel_id)
          IN /\ mine # {} =>
                  /\ reply'.kind = "ok" /\ reply'.body.status = "found"
                  /\ \E i \in mine : /\ reply'.body.payload.v = valuation[i]
                                     /\ \A k \in mine : k <= i
             /\ mine = {} => reply'.body.status # "found"]_vars

\* A parcel with two records was read: the second was returned.
C27_Witness ==
  /\ reply.op = "get_valuation"
  /\ reply.body.status = "found"
  /\ Cardinality(ValuationsOf(valuation, reply.body.parcel_id)) = 2
  /\ reply.body.payload.v.id = 2
  /\ reply.body.payload.v # valuation[1]

\* A parcel without record was read and a valuation was computed.
C27_WitnessCalculated ==
  /\ reply.op = "get_valuation"
  /\ reply.body.status = "calculated"
  /\ Len(valuation) > 0

\* The history of a parcel with two records, cut to one.
C27_WitnessHistory ==
  /\ reply.op = "get_valuation_history"
  /\ reply.kind = "ok"
  /\ Len(reply.body.history) = 1
  /\ Cardinality(ValuationsOf(valuation, reply.body.parcel_id)) = 2
  /\ reply.body.history[1].id = 2

(***************************************************************************)
(* Termination of jobs.                                                    *)
(***************************************************************************)
JobStored(j) == j \in Jobs

ExcelJob(j) == batch_upload[j].file_type = "excel"

\* A CSV whose bytes decode and whose header reads.
ReadableCsvJob(j) ==
  /\ batch_upload[j].file_type = "csv"
  /\ File(worker[j].file_content).utf8_ok
  /\ File(worker[j].file_content).header_ok

JobEnded(j) ==
  /\ JobStored(j)
  /\ batch_upload[j].status \in {"completed", "failed"}
  /\ ExcelJob(j) => batch_upload[j].status = "failed"
  /\ ReadableCsvJob(j) => batch_upload[j].status = "completed"

\* C28: under fair scheduling every stored job eventually has the status
\* completed or failed: failed when its file is an Excel file, completed
\* when it is a CSV that decodes and has a readable header.
C28_EveryJobEnds == \A j \in FairJobIds : JobStored(j) ~> JobEnded(j)

\* A job of a CSV ended completed and a job of an Excel file ended failed.
C28_Witness ==
  \E j, k \in Jobs :
    /\ ReadableCsvJob(j) /\ JobEnded(j) /\ batch_upload[j].total_records > 0
    /\ ExcelJob(k) /\ JobEnded(k)

\* A job of a CSV that does not decode ended failed.
C28_WitnessUndecodable ==
  \E j \in Jobs :
    /\ batch_upload[j].file_type = "csv"
    /\ ~File(worker[j].file_content).utf8_ok
    /\ batch_upload[j].status = "failed"

(***************************************************************************)
(* The persisted counts of a job.                                          *)
(***************************************************************************)
Counts(b) == <<b.total_records, b.processed_records, b.error_records>>

JobOver(j) == batch_upload[j].status \in {"completed", "failed"}

\* The total of the last write of counts for job j, 0 when none was made.
LastCountWrite(j) ==
  IF Len(count_writes[j]) = 0 THEN 0 ELSE count_writes[j][Len(count_writes[j])]

\* C29: the persisted total, processed and error counts of a job never
\* decrease; the status write changes the status, the error log and the
\* completion time and nothing else of the record; and the counts of a job
\* that is completed or failed are those of the last write of counts.
C29_CountsMonotonicAndFinal ==
  [][\A j \in Jobs :
       /\ batch_upload'[j].total_records >= batch_upload[j].total_records
       /\ batch_upload'[j].processed_records >= batch_upload[j].processed_records
       /\ batch_upload'[j].error_records >= batch_upload[j].error_records
       /\ batch_upload'[j].status # batch_upload[j].status =>
            /\ batch_upload'[j] = [batch_upload[j] EXCEPT
                                     !.status = batch_upload'[j].status,
                                     !.error_log = batch_upload'[j].error_log,
                                     !.completed = batch_upload'[j].completed]
            /\ count_writes'[j] = count_writes[j]
       /\ JobOver(j) => /\ batch_upload'[j] = batch_upload[j]
                        /\ count_writes'[j] = count_writes[j]
       /\ JobOver(j)' => batch_upload'[j].total_records = LastCountWrite(j)']_vars

\* A job ended completed after two progress writes and the final write of
\* counts, with rows counted as errors.
C29_Witness ==
  \E j \in Jobs :
    /\ batch_upload[j].status = "completed"
    /\ Len(count_writes[j]) = 3
    /\ batch_upload[j].total_records = 2 * CheckpointEvery + 1
    /\ batch_upload[j].error_records > 0

\* A job ended failed without any write of counts.
C29_WitnessFailed ==
  \E j \in Jobs :
    /\ batch_upload[j].status = "failed"
    /\ Len(count_writes[j]) = 0
    /\ Counts(batch_upload[j]) = <<0, 0, 0>>

(***************************************************************************)
(* Role recognition by the guards and by the ownership checks.             *)
(***************************************************************************)
\* Every scenario of the list is stored and none was created by the principal.
AllOfOthers(user, ids) ==
  \A i \in 1..Len(ids) :
    /\ get_scenario(ids[i]).some
    /\ get_scenario(ids[i]).v.created_by # Some(user.user_id)

\* What C30 says of the requests of a principal the Admin-only guard admits:
\* its delete and its comparison of scenarios created by others are not
\* refused with Authorization, and the delete removes the scenario.
TreatedAsAdmin(user) ==
  /\ \A id \in ScenarioIds :
       DeleteStep(user, id) /\ AllOfOthers(user, <<id>>) =>
         /\ reply'.kind = "ok"
         /\ ~get_scenario(id)'.some
  /\ \A ids \in RecognitionIdLists :
       /\ reply'.op = "compare_scenarios"
       /\ compare_scenarios_endpoint(user, ids)
       /\ AllOfOthers(user, ids)
       => reply'.kind # "Authorization"

Admitted(user) == AdminOnly(user) = "ok"

C30_WhenRoleInLowerCase ==
  [][\A user \in RecognitionUsers :
       Admitted(user) /\ user.role = to_lowercase(user.role) => TreatedAsAdmin(user)]_vars

\* A principal whose role is "Admin" is admitted by the Admin-only guard and
\* refused by the ownership checks: its delete and its comparison of
\* scenarios created by others end in Authorization.
C30_AdmittedAndRefused ==
  [][/\ Admitted(ProvisionedAdmin)
     /\ \A id \in ScenarioIds :
          DeleteStep(ProvisionedAdmin, id) /\ AllOfOthers(ProvisionedAdmin, <<id>>) =>
            reply'.kind = "Authorization" /\ scenario' = scenario
     /\ \A ids \in RecognitionIdLists :
          /\ reply'.op = "compare_scenarios"
          /\ compare_scenarios_endpoint(ProvisionedAdmin, ids)
          /\ AllOfOthers(ProvisionedAdmin, ids)
          => reply'.kind = "Authorization"]_vars

\* The account with role "Admin" registered a user, which the Admin-only
\* guard permits, while a scenario of another principal is stored.
C30_WitnessAdmitted ==
  /\ reply.op = "register"
  /\ reply.kind = "ok"
  /\ Len(users) = 6
  /\ \E s \in scenario : s.created_by = Some(AnalystUser.user_id)

\* A delete was refused with Authorization while a scenario of the Analyst
\* and one of the account with role "Admin" are stored.
C30_WitnessRefused ==
  /\ reply.op = "delete_scenario"
  /\ reply.kind = "Authorization"
  /\ \E s \in scenario : s.created_by = Some(AnalystUser.user_id)
  /\ \E s \in scenario : s.created_by = Some(ProvisionedAdmin.user_id)

====
